---- MODULE Spec2Model ----
(***************************************************************************)
(* Model of the three views of ed-admin, all of them in                    *)
(* src/src/pages/CadastrarCepPage.tsx: the CEP registration view           *)
(* (CadastrarCepPage), the properties view (ImoveisPage) and the           *)
(* valuations view (AvaliacoesPage).                                       *)
(*                                                                         *)
(* The components' React state and refs are the program variables.  The    *)
(* browser's timers and the HTTP requests in flight are the environment:   *)
(* a request is issued by one action and its response is handled by        *)
(* another, so everything that can happen between the two is a behaviour   *)
(* of the model.  The server is outside the repository: the content of a   *)
(* response is chosen when the response is handled.                        *)
(*                                                                         *)
(* Every action is one handler, or the part of an async handler that runs  *)
(* between two awaits.  The specifications run them from the same Init:    *)
(*   SpecPoll        the polling alone, with overlapping polls, teardown;  *)
(*   SpecBusca       the autocomplete and the selection of a suggestion;   *)
(*   SpecLinha       polling, retry and delete on lists of three records;  *)
(*   Spec            polling, registration and retry together;             *)
(*   SpecCadastro    every answer to a registration, on up to two records; *)
(*   SpecFormato     retry and delete of records of any code;              *)
(*   SpecDesmonte    teardown with polls, registrations, retries pending;  *)
(*   SpecImoveis     ImoveisPage: selections, their requests, the rows;    *)
(*   SpecCsv         ImoveisPage: one selection and the CSV export;        *)
(*   SpecAvaliacoes  AvaliacoesPage: the fetch, the filters, the export.   *)
(***************************************************************************)
EXTENDS Integers, Sequences, FiniteSets, TLC

(* ------------------------------ bounds -------------------------------- *)

\* Longest list a GET /ceps answers with.  Record ids are 1..MaxLen.
MaxLen == 3

\* The list grows by one with every registration: SpecCadastro lets a
\* registration prepend to a list of at most MaxLocal records, Spec and
\* SpecDesmonte to a shorter one.
MaxLocal == 2

\* Most GET /ceps requests in flight at once (guard of the timer tick).
MaxInFlight == 2

\* Most POST /ceps, retry, delete or GET /enderecos requests in flight at
\* once, per endpoint (guard of the handler that issues the request).
MaxReq == 1

\* Most runs of buscarImoveis in ImoveisPage (guard of the selector's change
\* event): the first is the one the mount starts.
MaxBuscas == 2

\* Longest list of sample records a GET /avaliacoes answers with.
MaxAvaliacoes == 3

\* Longest list of listings the export writes.
MaxLinhas == 2

(* ------------------------- values of the program ---------------------- *)

\* useRef(null): the value of a ref that holds no timer.  Timer ids are
\* the positive integers.
Null == 0

Status == {"pendente", "processando", "concluido", "erro"}

\* The code of the record with id i: eight digits, the last one from the id.
CepDe(i) ==
    <<"8", "8", "0", "1", "5", "2", "0">>
        \o <<(<<"1", "2", "3", "4", "5", "6", "7", "8", "9">>)[i]>>

\* interface Cep, reduced to the fields the handlers read: the records with
\* an id in ids.
Registros(ids) ==
    {[id |-> i, cep |-> CepDe(i), status |-> st] : i \in ids, st \in Status}

\* c.status === "pendente" || c.status === "processando"
Ativo(c) == c.status = "pendente" \/ c.status = "processando"

\* data.some((c) => ...)
TemAtivos(data) == \E k \in 1..Len(data) : Ativo(data[k])

RECURSIVE SeqsUpTo(_, _)
\* Every sequence over S of length at most n.
SeqsUpTo(S, n) ==
    IF n = 0 THEN {<<>>}
    ELSE LET shorter == SeqsUpTo(S, n - 1)
         IN  shorter \cup {Append(s, x) : s \in {t \in shorter : Len(t) = n - 1}, x \in S}

\* Lists a GET /ceps may answer with: at most n records with ids in ids,
\* every record once, newest id first.
Listas(ids, n) ==
    {d \in SeqsUpTo(Registros(ids), n) :
        \A k \in 1..Len(d) - 1 : d[k].id > d[k + 1].id}

\* The polling specification answers with every list of at most MaxLen
\* records whose ids are n, ..., 1 for a list of n records.
CepLists ==
    {[k \in 1..Len(sts) |->
         [id |-> Len(sts) + 1 - k, cep |-> CepDe(Len(sts) + 1 - k),
          status |-> sts[k]]] : sts \in SeqsUpTo(Status, MaxLen)}

\* The other specifications draw their records from two ids.
IdsAmostra == {1, 2}

CepRecords == Registros(IdsAmostra)

ListasAmostra == Listas(IdsAmostra, Cardinality(IdsAmostra))

\* What the server answers a registration or a retry with: a queued record.
RegistrosEnfileirados == {c \in CepRecords : c.status = "pendente"}

\* The specification of the rows draws its lists from three ids, so that
\* two records are left when one is removed.
IdsLinha == {1, 2, 3}

RegistrosLinha == Registros(IdsLinha)

ListasLinha == Listas(IdsLinha, Cardinality(IdsLinha))

\* Server lists of at most one record.
ListasCurtas == {d \in ListasAmostra : Len(d) <= 1}

(* ------------------------------ strings ------------------------------- *)

\* A string is the sequence of its characters.  A character is written as
\* itself when it is printable ASCII, as "\t", "\n", "\r" or "\f", and by
\* its ECMAScript escape otherwise (the grave accent too, which a string
\* of this language cannot hold): "\\u00E3" is the letter a with a tilde.
Digitos == {"0", "1", "2", "3", "4", "5", "6", "7", "8", "9"}

\* The characters String.prototype.trim strips: the WhiteSpace and
\* LineTerminator code points of ECMAScript.
Brancos ==
    { "\t", "\n", "\r", "\f", " ", "\\u000B", "\\u00A0", "\\uFEFF",
      "\\u1680", "\\u2000", "\\u2001", "\\u2002", "\\u2003", "\\u2004",
      "\\u2005", "\\u2006", "\\u2007", "\\u2008", "\\u2009", "\\u200A",
      "\\u2028", "\\u2029", "\\u202F", "\\u205F", "\\u3000" }

RECURSIVE TrimStart(_)
TrimStart(s) ==
    IF s # <<>> /\ Head(s) \in Brancos THEN TrimStart(Tail(s)) ELSE s

RECURSIVE TrimEnd(_)
TrimEnd(s) ==
    IF s # <<>> /\ s[Len(s)] \in Brancos
    THEN TrimEnd(SubSeq(s, 1, Len(s) - 1))
    ELSE s

\* String.prototype.trim
Trim(s) == TrimEnd(TrimStart(s))

\* cep.replace(/\D/g, "")
ApenasDigitos(s) == SelectSeq(s, LAMBDA ch : ch \in Digitos)

\* The characters encodeURIComponent keeps: the ASCII letters and digits
\* and - _ . ! ~ * ' ( )
NaoReservados ==
    { "A", "B", "C", "D", "E", "F", "G", "H", "I", "J", "K", "L", "M", "N",
      "O", "P", "Q", "R", "S", "T", "U", "V", "W", "X", "Y", "Z", "a", "b",
      "c", "d", "e", "f", "g", "h", "i", "j", "k", "l", "m", "n", "o", "p",
      "q", "r", "s", "t", "u", "v", "w", "x", "y", "z", "0", "1", "2", "3",
      "4", "5", "6", "7", "8", "9", "-", "_", ".", "!", "~", "*", "'", "(",
      ")" }

\* What encodeURIComponent writes for a character it does not keep: the
\* UTF-8 bytes of the character, each as %XX.  The table holds the other
\* characters of ASCII, the white space and the accented letters of
\* Portuguese.
PercentDe ==
    ("\t" :> <<"%", "0", "9">>) @@
    ("\n" :> <<"%", "0", "A">>) @@
    ("\r" :> <<"%", "0", "D">>) @@
    ("\f" :> <<"%", "0", "C">>) @@
    ("\\u000B" :> <<"%", "0", "B">>) @@
    (" " :> <<"%", "2", "0">>) @@
    ("\"" :> <<"%", "2", "2">>) @@
    ("#" :> <<"%", "2", "3">>) @@
    ("$" :> <<"%", "2", "4">>) @@
    ("%" :> <<"%", "2", "5">>) @@
    ("&" :> <<"%", "2", "6">>) @@
    ("+" :> <<"%", "2", "B">>) @@
    ("," :> <<"%", "2", "C">>) @@
    ("/" :> <<"%", "2", "F">>) @@
    (":" :> <<"%", "3", "A">>) @@
    (";" :> <<"%", "3", "B">>) @@
    ("<" :> <<"%", "3", "C">>) @@
    ("=" :> <<"%", "3", "D">>) @@
    (">" :> <<"%", "3", "E">>) @@
    ("?" :> <<"%", "3", "F">>) @@
    ("@" :> <<"%", "4", "0">>) @@
    ("[" :> <<"%", "5", "B">>) @@
    ("\\" :> <<"%", "5", "C">>) @@
    ("]" :> <<"%", "5", "D">>) @@
    ("^" :> <<"%", "5", "E">>) @@
    ("\\u0060" :> <<"%", "6", "0">>) @@
    ("{" :> <<"%", "7", "B">>) @@
    ("|" :> <<"%", "7", "C">>) @@
    ("}" :> <<"%", "7", "D">>) @@
    ("\\u00A0" :> <<"%", "C", "2", "%", "A", "0">>) @@
    ("\\uFEFF" :> <<"%", "E", "F", "%", "B", "B", "%", "B", "F">>) @@
    ("\\u1680" :> <<"%", "E", "1", "%", "9", "A", "%", "8", "0">>) @@
    ("\\u2000" :> <<"%", "E", "2", "%", "8", "0", "%", "8", "0">>) @@
    ("\\u2001" :> <<"%", "E", "2", "%", "8", "0", "%", "8", "1">>) @@
    ("\\u2002" :> <<"%", "E", "2", "%", "8", "0", "%", "8", "2">>) @@
    ("\\u2003" :> <<"%", "E", "2", "%", "8", "0", "%", "8", "3">>) @@
    ("\\u2004" :> <<"%", "E", "2", "%", "8", "0", "%", "8", "4">>) @@
    ("\\u2005" :> <<"%", "E", "2", "%", "8", "0", "%", "8", "5">>) @@
    ("\\u2006" :> <<"%", "E", "2", "%", "8", "0", "%", "8", "6">>) @@
    ("\\u2007" :> <<"%", "E", "2", "%", "8", "0", "%", "8", "7">>) @@
    ("\\u2008" :> <<"%", "E", "2", "%", "8", "0", "%", "8", "8">>) @@
    ("\\u2009" :> <<"%", "E", "2", "%", "8", "0", "%", "8", "9">>) @@
    ("\\u200A" :> <<"%", "E", "2", "%", "8", "0", "%", "8", "A">>) @@
    ("\\u2028" :> <<"%", "E", "2", "%", "8", "0", "%", "A", "8">>) @@
    ("\\u2029" :> <<"%", "E", "2", "%", "8", "0", "%", "A", "9">>) @@
    ("\\u202F" :> <<"%", "E", "2", "%", "8", "0", "%", "A", "F">>) @@
    ("\\u205F" :> <<"%", "E", "2", "%", "8", "1", "%", "9", "F">>) @@
    ("\\u3000" :> <<"%", "E", "3", "%", "8", "0", "%", "8", "0">>) @@
    ("\\u00E1" :> <<"%", "C", "3", "%", "A", "1">>) @@
    ("\\u00E0" :> <<"%", "C", "3", "%", "A", "0">>) @@
    ("\\u00E2" :> <<"%", "C", "3", "%", "A", "2">>) @@
    ("\\u00E3" :> <<"%", "C", "3", "%", "A", "3">>) @@
    ("\\u00E9" :> <<"%", "C", "3", "%", "A", "9">>) @@
    ("\\u00EA" :> <<"%", "C", "3", "%", "A", "A">>) @@
    ("\\u00ED" :> <<"%", "C", "3", "%", "A", "D">>) @@
    ("\\u00F3" :> <<"%", "C", "3", "%", "B", "3">>) @@
    ("\\u00F4" :> <<"%", "C", "3", "%", "B", "4">>) @@
    ("\\u00F5" :> <<"%", "C", "3", "%", "B", "5">>) @@
    ("\\u00FA" :> <<"%", "C", "3", "%", "B", "A">>) @@
    ("\\u00E7" :> <<"%", "C", "3", "%", "A", "7">>) @@
    ("\\u00C1" :> <<"%", "C", "3", "%", "8", "1">>) @@
    ("\\u00C0" :> <<"%", "C", "3", "%", "8", "0">>) @@
    ("\\u00C2" :> <<"%", "C", "3", "%", "8", "2">>) @@
    ("\\u00C3" :> <<"%", "C", "3", "%", "8", "3">>) @@
    ("\\u00C9" :> <<"%", "C", "3", "%", "8", "9">>) @@
    ("\\u00CA" :> <<"%", "C", "3", "%", "8", "A">>) @@
    ("\\u00CD" :> <<"%", "C", "3", "%", "8", "D">>) @@
    ("\\u00D3" :> <<"%", "C", "3", "%", "9", "3">>) @@
    ("\\u00D4" :> <<"%", "C", "3", "%", "9", "4">>) @@
    ("\\u00D5" :> <<"%", "C", "3", "%", "9", "5">>) @@
    ("\\u00DA" :> <<"%", "C", "3", "%", "9", "A">>) @@
    ("\\u00C7" :> <<"%", "C", "3", "%", "8", "7">>)

\* encodeURIComponent of one character of that alphabet.
EncodeChar(ch) == IF ch \in NaoReservados THEN <<ch>> ELSE PercentDe[ch]

RECURSIVE EncodeURIComponent(_)
EncodeURIComponent(s) ==
    IF s = <<>> THEN <<>> ELSE EncodeChar(Head(s)) \o EncodeURIComponent(Tail(s))

\* formatarCepExibicao: `${cepLimpo.slice(0, 5)}-${cepLimpo.slice(5)}`
FormatarCepExibicao(cepLimpo) ==
    SubSeq(cepLimpo, 1, IF Len(cepLimpo) < 5 THEN Len(cepLimpo) ELSE 5)
        \o <<"-">> \o SubSeq(cepLimpo, 6, Len(cepLimpo))

\* formatarCep of "@/lib/formatters", as section 8 of the specification
\* describes the CEP formatter: the non-digits stripped, at most eight
\* digits kept, a hyphen after the fifth once there are more than five.
FormatarCep(cep) ==
    LET d == ApenasDigitos(cep)
        o == SubSeq(d, 1, IF Len(d) < 8 THEN Len(d) ELSE 8)
    IN  IF Len(o) <= 5 THEN o
        ELSE SubSeq(o, 1, 5) \o <<"-">> \o SubSeq(o, 6, Len(o))

\* sugestao.cep absent (the field is optional).
Indefinido == <<"undefined">>

\* !sugestao.cep: undefined and the empty string are falsy.
SemCep(s) == s.cep = Indefinido \/ s.cep = <<>>

(* ------------------------- inputs of the view ------------------------- *)

\* Values a change event of the input carries.
ValoresDigitados ==
    { <<>>, <<"a">>, <<"a", "\t">>, <<"a", "b">>, <<" ", "a", "b">> }

\* interface EnderecoSugestao, reduced to label and cep.
SugCompleta ==
    [label |-> <<"R", "1">>,
     cep |-> <<"8", "8", "0", "1", "5", "-", "2", "0", "0">>]

SugSemCep == [label |-> <<"R", "2">>, cep |-> Indefinido]

SugCepCurto == [label |-> <<"R", "3">>, cep |-> <<"8", "8", "0", "1", "5">>]

SugCepVazio == [label |-> <<"R", "4">>, cep |-> <<>>]

SugCepSemDigitos == [label |-> <<"R", "5">>, cep |-> <<"s", "-", "n">>]

\* The lists a GET /enderecos answers with.
SugListas ==
    { <<>>, <<SugCompleta, SugSemCep>>, <<SugCepCurto, SugCepVazio>>,
      <<SugCepSemDigitos>> }

\* err.detail of an error body; Ausente when the body has no detail.
Ausente == "<ausente>"

Detalhes == {Ausente, "", "CEP invalido"}

(* ------------------------------- state -------------------------------- *)

VARIABLES
    texto,            \* useState(""): the input's text
    tipo,             \* useState("apartamento")
    sugestoes,        \* useState([]): the suggestions shown
    dropdownAberto,   \* useState(false)
    buscando,         \* useState(false): an autocomplete request is running
    cepsCadastrados,  \* useState([]): the local list of CEP records
    carregando,       \* useState(false): a registration is running
    debounceRef,      \* useRef(null): id of the last debounce timeout
    intervalRef,      \* useRef(null): id of the polling interval
    fase,             \* "construido", "montado" or "desmontado"
    timers,           \* ids of the intervals the browser is running
    timeouts,         \* pending timeouts: [id, valor]
    polls,            \* GET /ceps in flight, in the order issued
    posts,            \* POST /ceps in flight: [cep, tipo, label]
    retries,          \* POST /ceps/{id}/retry in flight: the record's id
    deletes,          \* DELETE /ceps/{id} in flight: the record's id
    enderecos,        \* GET /enderecos in flight: [q]
    toast,            \* the last notification shown
    resposta,         \* history: the last registration response handled
    ultimoValor,      \* history: the value of the input's last change event
    \* ImoveisPage
    ceps,               \* useState([]): the concluido records of the selector
    cepSelecionado,     \* useState(""): the selected code
    carregandoCeps,     \* useState(true)
    carregandoImoveis,  \* useState(false)
    dadosRegiao,        \* useState(null): <<>> or <<dados>>
    comparaveis,        \* useState([]): the listings shown
    expandido,          \* useState(null): the id of the expanded row
    faseImoveis,        \* "construido" or "montado"
    pedidoCeps,         \* the view's GET /ceps is in flight
    regioes,            \* GET /dados-regiao/{cep} in flight: [n, cep]
    pedidosComparaveis, \* GET /comparaveis in flight: [n, lat, lon, raio]
    nBuscas,            \* history: how many times buscarImoveis has run
    origem,             \* history: the runs whose responses are displayed
    download,           \* the file the last export handed to the browser
    \* AvaliacoesPage
    avaliacoes,           \* useState([]): the valuation records fetched
    carregandoAvaliacoes, \* useState(true): AvaliacoesPage's carregando
    filtroCep,            \* useState("")
    filtroConfianca,      \* useState("")
    filtroPrecoMin,       \* useState("")
    filtroPrecoMax,       \* useState("")
    faseAvaliacoes,       \* "construido" or "montado"
    pedidoAvaliacoes,     \* the view's GET /avaliacoes is in flight
    avisos                \* the notifications of these two views, in order

\* The state of CadastrarCepPage.
varsCadastro ==
    <<texto, tipo, sugestoes, dropdownAberto, buscando, cepsCadastrados,
      carregando, debounceRef, intervalRef, fase, timers, timeouts, polls,
      posts, retries, deletes, enderecos, toast, resposta, ultimoValor>>

\* The state of ImoveisPage.
varsImoveis ==
    <<ceps, cepSelecionado, carregandoCeps, carregandoImoveis, dadosRegiao,
      comparaveis, expandido, faseImoveis, pedidoCeps, regioes,
      pedidosComparaveis, nBuscas, origem, download>>

\* The state of AvaliacoesPage.
varsAvaliacoes ==
    <<avaliacoes, carregandoAvaliacoes, filtroCep, filtroConfianca,
      filtroPrecoMin, filtroPrecoMax, faseAvaliacoes, pedidoAvaliacoes>>

\* The three views share no state: what an action of CadastrarCepPage
\* leaves alone.
varsOutras == <<varsImoveis, varsAvaliacoes, avisos>>

vars == <<varsCadastro, varsImoveis, varsAvaliacoes, avisos>>

\* The autocomplete part of the state.
varsBusca ==
    <<texto, sugestoes, dropdownAberto, buscando, debounceRef, timeouts,
      enderecos, ultimoValor>>

SemToast == [kind |-> "none", msg |-> "", arg |-> <<>>]

\* What a registration was answered with: tipo is one of "409", "nao-ok"
\* (body parsed, with its detail), "nao-ok-sem-json", "ok" (with the
\* record, as a one-element sequence), "ok-sem-json" and "falha-rede".
Resposta(t, d, n) == [tipo |-> t, detail |-> d, novo |-> n]

SemResposta == Resposta("nenhuma", "", <<>>)

\* useState<string | null>(null): the value of expandido when no row is
\* expanded.  Row ids are strings.
Nenhum == "<null>"

\* No response is displayed: 0 stands for no run of buscarImoveis.
SemOrigem == [regiao |-> 0, comparaveis |-> 0]

\* The state after the first render, before the effects run.
Init ==
    /\ texto = <<>>
    /\ tipo = "apartamento"
    /\ sugestoes = <<>>
    /\ dropdownAberto = FALSE
    /\ buscando = FALSE
    /\ cepsCadastrados = <<>>
    /\ carregando = FALSE
    /\ debounceRef = Null
    /\ intervalRef = Null
    /\ fase = "construido"
    /\ timers = {}
    /\ timeouts = {}
    /\ polls = <<>>
    /\ posts = {}
    /\ retries = {}
    /\ deletes = {}
    /\ enderecos = {}
    /\ toast = SemToast
    /\ resposta = SemResposta
    /\ ultimoValor = <<>>
    /\ ceps = <<>>
    /\ cepSelecionado = <<>>
    /\ carregandoCeps = TRUE
    /\ carregandoImoveis = FALSE
    /\ dadosRegiao = <<>>
    /\ comparaveis = <<>>
    /\ expandido = Nenhum
    /\ faseImoveis = "construido"
    /\ pedidoCeps = FALSE
    /\ regioes = {}
    /\ pedidosComparaveis = {}
    /\ nBuscas = 0
    /\ origem = SemOrigem
    /\ download = <<>>
    /\ avaliacoes = <<>>
    /\ carregandoAvaliacoes = TRUE
    /\ filtroCep = <<>>
    /\ filtroConfianca = ""
    /\ filtroPrecoMin = <<>>
    /\ filtroPrecoMax = <<>>
    /\ faseAvaliacoes = "construido"
    /\ pedidoAvaliacoes = FALSE
    /\ avisos = <<>>

(* ------------------------------- timers ------------------------------- *)

\* setInterval returns an id no earlier call returned.  Ids are opaque, so
\* the model takes the smallest positive integer that is neither the id of
\* a running interval nor held in intervalRef.
NovoIntervalId ==
    CHOOSE n \in 1..(Cardinality(timers \cup {intervalRef}) + 1) :
        /\ n \notin timers \cup {intervalRef}
        /\ \A m \in 1..(n - 1) : m \in timers \cup {intervalRef}

\* Ids of the pending timeouts, and the one debounceRef holds.
IdsDeTimeout == {t.id : t \in timeouts} \cup {debounceRef}

\* setTimeout: likewise, among the timeouts.
NovoTimeoutId ==
    CHOOSE n \in 1..(Cardinality(IdsDeTimeout) + 1) :
        /\ n \notin IdsDeTimeout
        /\ \A m \in 1..(n - 1) : m \in IdsDeTimeout

\* Sequence s without its i-th element.
SemIndice(s, i) == SubSeq(s, 1, i - 1) \o SubSeq(s, i + 1, Len(s))

(* ------------------------------ polling ------------------------------- *)

\* A poll in flight.  sup is history: a poll issued later has already been
\* answered ok.
PollNovo == [sup |-> FALSE]

\* A GET /ceps leaves: fetch("/api/v1/ceps").
EmiteBuscarCeps == polls' = Append(polls, PollNovo)

\* The poll at position i is answered and leaves the queue; an ok answer
\* marks every poll issued before it.
RespondePoll(i, ok) ==
    polls' = SemIndice([k \in 1..Len(polls) |->
                           IF ok /\ k < i THEN [sup |-> TRUE] ELSE polls[k]], i)

\* The mount effect: buscarCeps() and setInterval(buscarCeps, 5000).
MountEffect ==
    /\ fase = "construido"
    /\ fase' = "montado"
    /\ EmiteBuscarCeps
    /\ intervalRef' = NovoIntervalId
    /\ timers' = timers \cup {NovoIntervalId}
    /\ UNCHANGED <<tipo, cepsCadastrados, carregando, posts, retries,
                   deletes, toast, resposta>>
    /\ UNCHANGED varsBusca
    /\ UNCHANGED varsOutras

\* A running interval fires and calls buscarCeps.
IntervalTick(limite) ==
    /\ timers # {}
    /\ Len(polls) < limite
    /\ EmiteBuscarCeps
    /\ UNCHANGED <<tipo, cepsCadastrados, carregando, intervalRef, fase,
                   timers, posts, retries, deletes, toast, resposta>>
    /\ UNCHANGED varsBusca
    /\ UNCHANGED varsOutras

\* buscarCeps without the self-cancelling block: the interval is never
\* cleared.
BuscarCepsOkSemParar(i, data) ==
    /\ i \in 1..Len(polls)
    /\ RespondePoll(i, TRUE)
    /\ cepsCadastrados' = data
    /\ UNCHANGED <<timers, intervalRef>>
    /\ UNCHANGED <<tipo, carregando, fase, posts, retries, deletes, toast, resposta>>
    /\ UNCHANGED varsBusca
    /\ UNCHANGED varsOutras

\* buscarCeps, res.ok with the list `data`.
BuscarCepsOk(i, data) ==
    /\ i \in 1..Len(polls)
    /\ RespondePoll(i, TRUE)
    /\ cepsCadastrados' = data
    /\ IF ~TemAtivos(data) /\ intervalRef # Null
       THEN /\ timers' = timers \ {intervalRef}
            /\ intervalRef' = Null
       ELSE UNCHANGED <<timers, intervalRef>>
    /\ UNCHANGED <<tipo, carregando, fase, posts, retries, deletes, toast, resposta>>
    /\ UNCHANGED varsBusca
    /\ UNCHANGED varsOutras

\* buscarCeps, a response that is not ok: nothing is done.
BuscarCepsNotOk(i) ==
    /\ i \in 1..Len(polls)
    /\ RespondePoll(i, FALSE)
    /\ UNCHANGED <<tipo, cepsCadastrados, carregando, intervalRef, fase,
                   timers, posts, retries, deletes, toast, resposta>>
    /\ UNCHANGED varsBusca
    /\ UNCHANGED varsOutras

\* buscarCeps with a catch block that reports the failure.
BuscarCepsThrowComAviso(i) ==
    /\ i \in 1..Len(polls)
    /\ RespondePoll(i, FALSE)
    /\ toast' = [kind |-> "error", msg |-> "Erro ao carregar CEPs", arg |-> <<>>]
    /\ UNCHANGED <<tipo, cepsCadastrados, carregando, intervalRef, fase,
                   timers, posts, retries, deletes, resposta>>
    /\ UNCHANGED varsBusca
    /\ UNCHANGED varsOutras

\* buscarCeps, fetch or res.json() rejects: the catch block is empty.
BuscarCepsThrow(i) ==
    /\ i \in 1..Len(polls)
    /\ RespondePoll(i, FALSE)
    /\ UNCHANGED <<tipo, cepsCadastrados, carregando, intervalRef, fase,
                   timers, posts, retries, deletes, toast, resposta>>
    /\ UNCHANGED varsBusca
    /\ UNCHANGED varsOutras

\* The mount effect's cleanup: the interval is cleared, the ref keeps its id.
Unmount ==
    /\ fase = "montado"
    /\ fase' = "desmontado"
    /\ timers' = IF intervalRef # Null THEN timers \ {intervalRef} ELSE timers
    /\ UNCHANGED <<tipo, cepsCadastrados, carregando, intervalRef, polls,
                   posts, retries, deletes, toast, resposta>>
    /\ UNCHANGED varsBusca
    /\ UNCHANGED varsOutras

(* ---------------------------- autocomplete ---------------------------- *)

\* handleTextoChange without its clearTimeout.
HandleTextoChangeSemCancelar(valor) ==
    /\ fase = "montado"
    /\ texto' = valor
    /\ ultimoValor' = valor
    /\ IF Len(Trim(valor)) < 2
       THEN /\ sugestoes' = <<>>
            /\ dropdownAberto' = FALSE
            /\ UNCHANGED <<debounceRef, timeouts>>
       ELSE /\ debounceRef' = NovoTimeoutId
            /\ timeouts' = timeouts \cup {[id |-> NovoTimeoutId, valor |-> valor]}
            /\ UNCHANGED <<sugestoes, dropdownAberto>>
    /\ UNCHANGED <<tipo, buscando, cepsCadastrados, carregando, intervalRef,
                   fase, timers, polls, posts, retries, deletes, enderecos,
                   toast, resposta>>
    /\ UNCHANGED varsOutras

\* handleTextoChange: the input's change event with value `valor`.
HandleTextoChange(valor) ==
    /\ fase = "montado"
    /\ texto' = valor
    /\ ultimoValor' = valor
    /\ LET pendentes == IF debounceRef # Null
                        THEN {t \in timeouts : t.id # debounceRef}
                        ELSE timeouts
       IN  IF Len(Trim(valor)) < 2
           THEN /\ sugestoes' = <<>>
                /\ dropdownAberto' = FALSE
                /\ timeouts' = pendentes
                /\ UNCHANGED debounceRef
           ELSE /\ debounceRef' = NovoTimeoutId
                /\ timeouts' = pendentes \cup {[id |-> NovoTimeoutId, valor |-> valor]}
                /\ UNCHANGED <<sugestoes, dropdownAberto>>
    /\ UNCHANGED <<tipo, buscando, cepsCadastrados, carregando, intervalRef,
                   fase, timers, polls, posts, retries, deletes, enderecos,
                   toast, resposta>>
    /\ UNCHANGED varsOutras

\* The debounce timeout t fires after its 300 ms: setBuscando(true) and
\* fetch(`/api/v1/enderecos?q=${encodeURIComponent(valor)}&limit=8`).
DebounceFire(t) ==
    /\ t \in timeouts
    /\ Cardinality(enderecos) < MaxReq
    /\ timeouts' = timeouts \ {t}
    /\ buscando' = TRUE
    /\ enderecos' = enderecos \cup {[q |-> EncodeURIComponent(t.valor)]}
    /\ UNCHANGED <<texto, tipo, sugestoes, dropdownAberto, cepsCadastrados,
                   carregando, debounceRef, intervalRef, fase, timers, polls,
                   posts, retries, deletes, toast, resposta, ultimoValor>>
    /\ UNCHANGED varsOutras

\* The autocomplete request r is answered ok with the list `data`.
EnderecosOk(r, data) ==
    /\ r \in enderecos
    /\ enderecos' = enderecos \ {r}
    /\ sugestoes' = data
    /\ dropdownAberto' = (Len(data) > 0)
    /\ buscando' = FALSE
    /\ UNCHANGED <<texto, tipo, cepsCadastrados, carregando, debounceRef,
                   intervalRef, fase, timers, timeouts, polls, posts,
                   retries, deletes, toast, resposta, ultimoValor>>
    /\ UNCHANGED varsOutras

\* The autocomplete request r gets a response that is not ok.
EnderecosNotOk(r) ==
    /\ r \in enderecos
    /\ enderecos' = enderecos \ {r}
    /\ buscando' = FALSE
    /\ UNCHANGED <<texto, tipo, sugestoes, dropdownAberto, cepsCadastrados,
                   carregando, debounceRef, intervalRef, fase, timers,
                   timeouts, polls, posts, retries, deletes, toast, resposta,
                   ultimoValor>>
    /\ UNCHANGED varsOutras

\* The autocomplete request r: fetch or res.json() rejects.
EnderecosThrow(r) ==
    /\ r \in enderecos
    /\ enderecos' = enderecos \ {r}
    /\ buscando' = FALSE
    /\ UNCHANGED <<texto, tipo, sugestoes, dropdownAberto, cepsCadastrados,
                   carregando, debounceRef, intervalRef, fase, timers,
                   timeouts, polls, posts, retries, deletes, toast, resposta,
                   ultimoValor>>
    /\ UNCHANGED varsOutras

\* onFocus of the input: sugestoes.length > 0 && setDropdownAberto(true)
InputFocus ==
    /\ fase = "montado"
    /\ Len(sugestoes) > 0
    /\ dropdownAberto' = TRUE
    /\ UNCHANGED <<texto, tipo, sugestoes, buscando, cepsCadastrados,
                   carregando, debounceRef, intervalRef, fase, timers,
                   timeouts, polls, posts, retries, deletes, enderecos,
                   toast, resposta, ultimoValor>>
    /\ UNCHANGED varsOutras

\* mousedown outside the wrapper: setDropdownAberto(false)
ClickFora ==
    /\ fase = "montado"
    /\ dropdownAberto' = FALSE
    /\ UNCHANGED <<texto, tipo, sugestoes, buscando, cepsCadastrados,
                   carregando, debounceRef, intervalRef, fase, timers,
                   timeouts, polls, posts, retries, deletes, enderecos,
                   toast, resposta, ultimoValor>>
    /\ UNCHANGED varsOutras

\* The type buttons: setTipo(t).
SetTipo(t) ==
    /\ fase = "montado"
    /\ tipo' = t
    /\ UNCHANGED <<texto, sugestoes, dropdownAberto, buscando,
                   cepsCadastrados, carregando, debounceRef, intervalRef,
                   fase, timers, timeouts, polls, posts, retries, deletes,
                   enderecos, toast, resposta, ultimoValor>>
    /\ UNCHANGED varsOutras

(* ---------------------------- registration ---------------------------- *)

Erro(msg) == [kind |-> "error", msg |-> msg, arg |-> <<>>]

\* The success path without its restart of the polling.
GarantePollingNunca == UNCHANGED <<intervalRef, timers>>

\* if (!intervalRef.current) intervalRef.current = setInterval(buscarCeps, 5000)
GarantePolling ==
    IF intervalRef = Null
    THEN /\ intervalRef' = NovoIntervalId
         /\ timers' = timers \cup {NovoIntervalId}
    ELSE UNCHANGED <<intervalRef, timers>>

\* handleSelecionarSugestao up to its fetch: mousedown on the item k of the
\* open dropdown.
HandleSelecionarSugestao(k) ==
    /\ fase = "montado"
    /\ dropdownAberto
    /\ k \in 1..Len(sugestoes)
    /\ sugestoes' = <<>>
    /\ dropdownAberto' = FALSE
    /\ texto' = sugestoes[k].label
    /\ IF SemCep(sugestoes[k])
       THEN \* the message of line 158, without its accents
            /\ toast' = Erro("Endereco selecionado nao possui CEP associado")
            /\ UNCHANGED <<carregando, posts>>
       ELSE /\ Cardinality(posts) < MaxReq
            /\ carregando' = TRUE
            /\ posts' = posts \cup
                   {[cep |-> ApenasDigitos(sugestoes[k].cep), tipo |-> tipo,
                     label |-> sugestoes[k].label]}
            /\ UNCHANGED toast
    /\ UNCHANGED <<tipo, buscando, cepsCadastrados, debounceRef, intervalRef,
                   fase, timers, timeouts, polls, retries, deletes,
                   enderecos, ultimoValor>>
    /\ UNCHANGED resposta
    /\ UNCHANGED varsOutras

\* The registration without its 409 branch: the response falls through to
\* the !res.ok branch, whose body has no detail.
Post409SemRamo(r) ==
    /\ r \in posts
    /\ posts' = posts \ {r}
    /\ toast' = Erro("Erro ao cadastrar CEP")
    /\ carregando' = FALSE
    /\ UNCHANGED <<texto, tipo, sugestoes, dropdownAberto, buscando,
                   cepsCadastrados, debounceRef, intervalRef, fase, timers,
                   timeouts, polls, retries, deletes, enderecos, ultimoValor>>
    /\ resposta' = Resposta("409", "", <<>>)
    /\ UNCHANGED varsOutras

\* The registration r is answered 409.
Post409(r) ==
    /\ r \in posts
    /\ posts' = posts \ {r}
    /\ toast' = Erro("CEP ja cadastrado")
    /\ carregando' = FALSE
    /\ UNCHANGED <<texto, tipo, sugestoes, dropdownAberto, buscando,
                   cepsCadastrados, debounceRef, intervalRef, fase, timers,
                   timeouts, polls, retries, deletes, enderecos, ultimoValor>>
    /\ resposta' = Resposta("409", "", <<>>)
    /\ UNCHANGED varsOutras

\* The registration r gets another response that is not ok, whose body
\* parses: toast.error(err.detail || "Erro ao cadastrar CEP").
PostNotOk(r, detail) ==
    /\ r \in posts
    /\ posts' = posts \ {r}
    /\ toast' = Erro(IF detail \in {Ausente, ""}
                     THEN "Erro ao cadastrar CEP" ELSE detail)
    /\ carregando' = FALSE
    /\ UNCHANGED <<texto, tipo, sugestoes, dropdownAberto, buscando,
                   cepsCadastrados, debounceRef, intervalRef, fase, timers,
                   timeouts, polls, retries, deletes, enderecos, ultimoValor>>
    /\ resposta' = Resposta("nao-ok", detail, <<>>)
    /\ UNCHANGED varsOutras

\* The registration r gets a response (ok or not, not 409) whose body is
\* not JSON: res.json() rejects and the catch block runs.
PostJsonRejeita(r, ok) ==
    /\ r \in posts
    /\ ok \in BOOLEAN
    /\ posts' = posts \ {r}
    /\ toast' = Erro("Erro de conexao com o servidor")
    /\ carregando' = FALSE
    /\ UNCHANGED <<texto, tipo, sugestoes, dropdownAberto, buscando,
                   cepsCadastrados, debounceRef, intervalRef, fase, timers,
                   timeouts, polls, retries, deletes, enderecos, ultimoValor>>
    /\ resposta' = Resposta(IF ok THEN "ok-sem-json" ELSE "nao-ok-sem-json", "", <<>>)
    /\ UNCHANGED varsOutras

\* The registration r fails on the network: fetch rejects.
PostThrow(r) ==
    /\ r \in posts
    /\ posts' = posts \ {r}
    /\ toast' = Erro("Erro de conexao com o servidor")
    /\ carregando' = FALSE
    /\ UNCHANGED <<texto, tipo, sugestoes, dropdownAberto, buscando,
                   cepsCadastrados, debounceRef, intervalRef, fase, timers,
                   timeouts, polls, retries, deletes, enderecos, ultimoValor>>
    /\ resposta' = Resposta("falha-rede", "", <<>>)
    /\ UNCHANGED varsOutras

\* The registration success with [...prev, novo] in place of
\* [novo, ...prev].
PostOkNoFim(r, novo) ==
    /\ r \in posts
    /\ posts' = posts \ {r}
    /\ cepsCadastrados' = Append(cepsCadastrados, novo)
    /\ texto' = <<>>
    /\ toast' = [kind |-> "success", msg |-> "cadastrado e enfileirado",
                 arg |-> r.label]
    /\ GarantePolling
    /\ carregando' = FALSE
    /\ UNCHANGED <<tipo, sugestoes, dropdownAberto, buscando, debounceRef,
                   fase, timeouts, polls, retries, deletes, enderecos,
                   ultimoValor>>
    /\ resposta' = Resposta("ok", "", <<novo>>)
    /\ UNCHANGED varsOutras

\* The registration r is answered ok with the record `novo`.
PostOk(r, novo) ==
    /\ r \in posts
    /\ posts' = posts \ {r}
    /\ cepsCadastrados' = <<novo>> \o cepsCadastrados
    /\ texto' = <<>>
    /\ toast' = [kind |-> "success", msg |-> "cadastrado e enfileirado",
                 arg |-> r.label]
    /\ GarantePolling
    /\ carregando' = FALSE
    /\ UNCHANGED <<tipo, sugestoes, dropdownAberto, buscando, debounceRef,
                   fase, timeouts, polls, retries, deletes, enderecos,
                   ultimoValor>>
    /\ resposta' = Resposta("ok", "", <<novo>>)
    /\ UNCHANGED varsOutras

(* -------------------------- retry and delete -------------------------- *)

\* handleRetry up to its fetch: the button of record k, shown when its
\* status is erro.
HandleRetry(k) ==
    /\ fase = "montado"
    /\ k \in 1..Len(cepsCadastrados)
    /\ cepsCadastrados[k].status = "erro"
    /\ Cardinality(retries) < MaxReq
    /\ retries' = retries \cup
           {[id |-> cepsCadastrados[k].id, cep |-> cepsCadastrados[k].cep]}
    /\ UNCHANGED <<texto, tipo, sugestoes, dropdownAberto, buscando,
                   cepsCadastrados, carregando, debounceRef, intervalRef,
                   fase, timers, timeouts, polls, posts, deletes, enderecos,
                   toast, resposta, ultimoValor>>
    /\ UNCHANGED varsOutras

\* prev.filter(...) and [atualizado, ...rest] in place of prev.map: the
\* updated record moves to the front.
SubstituiNaFrente(prev, atualizado) ==
    <<atualizado>> \o SelectSeq(prev, LAMBDA c : c.id # atualizado.id)

\* prev.map((c) => (c.id === atualizado.id ? atualizado : c))
Substitui(prev, atualizado) ==
    [k \in 1..Len(prev) |->
        IF prev[k].id = atualizado.id THEN atualizado ELSE prev[k]]

\* The retry r is answered ok with the record `atualizado`.
RetryOk(r, atualizado) ==
    /\ r \in retries
    /\ retries' = retries \ {r}
    /\ cepsCadastrados' = Substitui(cepsCadastrados, atualizado)
    /\ toast' = [kind |-> "success", msg |-> "reenfileirado",
                 arg |-> FormatarCepExibicao(r.cep)]
    /\ GarantePolling
    /\ UNCHANGED <<texto, tipo, sugestoes, dropdownAberto, buscando,
                   carregando, debounceRef, fase, timeouts, polls, posts,
                   deletes, enderecos, ultimoValor>>
    /\ UNCHANGED resposta
    /\ UNCHANGED varsOutras

\* The retry r gets a response that is not ok: nothing is done.
RetryNotOk(r) ==
    /\ r \in retries
    /\ retries' = retries \ {r}
    /\ UNCHANGED <<texto, tipo, sugestoes, dropdownAberto, buscando,
                   cepsCadastrados, carregando, debounceRef, intervalRef,
                   fase, timers, timeouts, polls, posts, deletes, enderecos,
                   toast, resposta, ultimoValor>>
    /\ UNCHANGED varsOutras

\* The retry r: fetch or res.json() rejects.
RetryThrow(r) ==
    /\ r \in retries
    /\ retries' = retries \ {r}
    /\ toast' = Erro("Erro ao reprocessar CEP")
    /\ UNCHANGED <<texto, tipo, sugestoes, dropdownAberto, buscando,
                   cepsCadastrados, carregando, debounceRef, intervalRef,
                   fase, timers, timeouts, polls, posts, deletes, enderecos,
                   ultimoValor>>
    /\ UNCHANGED resposta
    /\ UNCHANGED varsOutras

\* handleRemover up to its fetch: the delete button of record k.
HandleRemover(k) ==
    /\ fase = "montado"
    /\ k \in 1..Len(cepsCadastrados)
    /\ Cardinality(deletes) < MaxReq
    /\ deletes' = deletes \cup
           {[id |-> cepsCadastrados[k].id, cep |-> cepsCadastrados[k].cep]}
    /\ UNCHANGED <<texto, tipo, sugestoes, dropdownAberto, buscando,
                   cepsCadastrados, carregando, debounceRef, intervalRef,
                   fase, timers, timeouts, polls, posts, retries, enderecos,
                   toast, resposta, ultimoValor>>
    /\ UNCHANGED varsOutras

\* The removal by position in place of the removal by id: prev.slice(1).
SemPrimeiro(prev, id) == IF prev = <<>> THEN prev ELSE Tail(prev)

\* prev.filter((c) => c.id !== cepRemover.id)
SemId(prev, id) == SelectSeq(prev, LAMBDA c : c.id # id)

\* The delete r is answered ok.
RemoverOk(r) ==
    /\ r \in deletes
    /\ deletes' = deletes \ {r}
    /\ cepsCadastrados' = SemId(cepsCadastrados, r.id)
    /\ toast' = [kind |-> "info", msg |-> "removido",
                 arg |-> FormatarCepExibicao(r.cep)]
    /\ UNCHANGED <<texto, tipo, sugestoes, dropdownAberto, buscando,
                   carregando, debounceRef, intervalRef, fase, timers,
                   timeouts, polls, posts, retries, enderecos, ultimoValor>>
    /\ UNCHANGED resposta
    /\ UNCHANGED varsOutras

\* The delete r gets a response that is not ok: nothing is done.
RemoverNotOk(r) ==
    /\ r \in deletes
    /\ deletes' = deletes \ {r}
    /\ UNCHANGED <<texto, tipo, sugestoes, dropdownAberto, buscando,
                   cepsCadastrados, carregando, debounceRef, intervalRef,
                   fase, timers, timeouts, polls, posts, retries, enderecos,
                   toast, resposta, ultimoValor>>
    /\ UNCHANGED varsOutras

\* The delete r fails on the network: fetch rejects.
RemoverThrow(r) ==
    /\ r \in deletes
    /\ deletes' = deletes \ {r}
    /\ toast' = Erro("Erro ao remover CEP")
    /\ UNCHANGED <<texto, tipo, sugestoes, dropdownAberto, buscando,
                   cepsCadastrados, carregando, debounceRef, intervalRef,
                   fase, timers, timeouts, polls, posts, retries, enderecos,
                   ultimoValor>>
    /\ UNCHANGED resposta
    /\ UNCHANGED varsOutras

(* ---------------------------- ImoveisPage ----------------------------- *)

\* A text handed to the CSV export is the sequence of its pieces: a piece
\* is a comma, a double quote, a line feed, or a run of other characters.
Aspas == "\""

Virgula == ","

NovaLinha == "\n"

\* A field that may be null is <<>> (null) or <<value>>.
Nulo == <<>>

\* x ?? alt
OuSenao(x, alt) == IF x = Nulo THEN alt ELSE x[1]

\* interface DadosRegiao, reduced to what buscarImoveis reads and what tells
\* two regions apart.
DadosRegioes ==
    {[coordenadas |-> [lat |-> 0 - 27, lon |-> 0 - 48], totalAnuncios |-> 12],
     [coordenadas |-> [lat |-> 0 - 23, lon |-> 0 - 46], totalAnuncios |-> 0]}

\* raio=500 in the URL of GET /comparaveis.
Raio == 500

\* interface Comparavel, reduced to the fields the export writes and the
\* row's id.  distancia_metros is in tenths of a metre, every other number
\* is an integer.
Comparavel(id, preco, area, endereco, bairro, fonte, url, dist) ==
    [id |-> id, preco |-> preco, area_interna_m2 |-> area,
     area_externa_m2 |-> Nulo, dormitorios |-> <<2>>, suites |-> Nulo,
     banheiros |-> <<1>>, vagas |-> Nulo, idade_predio_anos |-> Nulo,
     endereco |-> endereco, bairro |-> bairro, fonte |-> fonte, url |-> url,
     distancia_metros |-> dist]

\* A listing with every optional field null.
ImovelA ==
    Comparavel("a", 300000, Nulo, Nulo, Nulo, Nulo, Nulo, 1204)

\* endereco: Rua "A"
ImovelB ==
    Comparavel("b", 450000, <<60>>, << <<"Rua ", Aspas, "A", Aspas>> >>,
               << <<"Centro">> >>, << <<"OLX">> >>,
               << <<"https://olx.example/1">> >>, 1205)

\* endereco with a comma: Rua B, 10
ImovelC ==
    Comparavel("c", 520000, <<75>>, << <<"Rua B", Virgula, " 10">> >>,
               << <<"Trindade">> >>, << <<"Zap">> >>, Nulo, 4999)

\* url with a comma in its query: https://zap.example/?ll=-27.5,-48.5
ImovelD ==
    Comparavel("d", 610000, <<90>>, << <<"Av. C">> >>, Nulo, Nulo,
               << <<"https://zap.example/?ll=-27.5", Virgula, "-48.5">> >>, 0)

\* fonte with a comma: Imob, Ltda
ImovelE ==
    Comparavel("e", 250000, Nulo, Nulo, << <<"Centro">> >>,
               << <<"Imob", Virgula, " Ltda">> >>, Nulo, 3500)

Imoveis == {ImovelA, ImovelB, ImovelC, ImovelD, ImovelE}

\* The lists a GET /comparaveis answers with in the specification of the
\* requests: no listing, one, two.
ListasComparaveis == { <<>>, <<ImovelA>>, <<ImovelB, ImovelC>> }

\* data.filter((c) => c.status === "concluido")
Concluidos(data) == SelectSeq(data, LAMBDA c : c.status = "concluido")

Aviso(msg, n) == [msg |-> msg, busca |-> n]

\* The mount effect of ImoveisPage: fetch("/api/v1/ceps").  The selection
\* effect finds cepSelecionado empty and does nothing.
MontarImoveis ==
    /\ faseImoveis = "construido"
    /\ faseImoveis' = "montado"
    /\ pedidoCeps' = TRUE
    /\ UNCHANGED <<ceps, cepSelecionado, carregandoCeps, carregandoImoveis,
                   dadosRegiao, comparaveis, expandido, regioes,
                   pedidosComparaveis, nBuscas, origem, download>>
    /\ UNCHANGED <<varsCadastro, varsAvaliacoes, avisos>>

\* buscarImoveis(cep) up to its first await, without the three resets.
BuscarImoveisSemLimpar(cep) ==
    IF cep = <<>>
    THEN UNCHANGED <<carregandoImoveis, dadosRegiao, comparaveis, expandido,
                     regioes, nBuscas, origem>>
    ELSE /\ carregandoImoveis' = TRUE
         /\ UNCHANGED <<dadosRegiao, comparaveis, expandido, origem>>
         /\ nBuscas' = nBuscas + 1
         /\ regioes' = regioes \cup {[n |-> nBuscas + 1, cep |-> cep]}

\* buscarImoveis(cep) up to its first await: the selection effect calls it
\* when cepSelecionado has changed.
BuscarImoveis(cep) ==
    IF cep = <<>>
    THEN UNCHANGED <<carregandoImoveis, dadosRegiao, comparaveis, expandido,
                     regioes, nBuscas, origem>>
    ELSE /\ carregandoImoveis' = TRUE
         /\ dadosRegiao' = <<>>
         /\ comparaveis' = <<>>
         /\ expandido' = Nenhum
         /\ origem' = SemOrigem
         /\ nBuscas' = nBuscas + 1
         /\ regioes' = regioes \cup {[n |-> nBuscas + 1, cep |-> cep]}

\* The view's GET /ceps is answered with the list `data`: the selector
\* takes the concluido records and selects the first.
CepsImoveisOk(data) ==
    /\ pedidoCeps
    /\ pedidoCeps' = FALSE
    /\ ceps' = Concluidos(data)
    /\ carregandoCeps' = FALSE
    /\ IF Len(Concluidos(data)) > 0
       THEN /\ cepSelecionado' = Concluidos(data)[1].cep
            /\ BuscarImoveis(Concluidos(data)[1].cep)
       ELSE UNCHANGED <<cepSelecionado, carregandoImoveis, dadosRegiao,
                        comparaveis, expandido, regioes, nBuscas, origem>>
    /\ UNCHANGED <<faseImoveis, pedidosComparaveis, download>>
    /\ UNCHANGED <<varsCadastro, varsAvaliacoes, avisos>>

\* The view's GET /ceps fails: fetch or res.json() rejects, or the body is
\* not a list and data.filter throws.
CepsImoveisThrow ==
    /\ pedidoCeps
    /\ pedidoCeps' = FALSE
    /\ carregandoCeps' = FALSE
    /\ avisos' = Append(avisos, Aviso("Erro ao carregar CEPs", 0))
    /\ UNCHANGED <<ceps, cepSelecionado, carregandoImoveis, dadosRegiao,
                   comparaveis, expandido, faseImoveis, regioes,
                   pedidosComparaveis, nBuscas, origem, download>>
    /\ UNCHANGED <<varsCadastro, varsAvaliacoes>>

\* onChange of the selector: option k is chosen, and the selection effect
\* runs buscarImoveis because cepSelecionado has changed.
SelecionarCep(k) ==
    /\ faseImoveis = "montado"
    /\ ~carregandoCeps
    /\ k \in 1..Len(ceps)
    /\ ceps[k].cep # cepSelecionado
    /\ nBuscas < MaxBuscas
    /\ cepSelecionado' = ceps[k].cep
    /\ BuscarImoveis(ceps[k].cep)
    /\ UNCHANGED <<ceps, carregandoCeps, faseImoveis, pedidoCeps,
                   pedidosComparaveis, download>>
    /\ UNCHANGED <<varsCadastro, varsAvaliacoes, avisos>>

\* The catch and finally blocks of buscarImoveis, in the run n.
FalhaImoveis(n) ==
    /\ avisos' = Append(avisos, Aviso("Erro ao carregar imoveis da regiao", n))
    /\ carregandoImoveis' = FALSE

\* The region request r is answered ok with `dados`, and the comparables
\* are requested around its coordinates.
RegiaoOk(r, dados) ==
    /\ r \in regioes
    /\ regioes' = regioes \ {r}
    /\ dadosRegiao' = <<dados>>
    /\ origem' = [origem EXCEPT !.regiao = r.n]
    /\ pedidosComparaveis' = pedidosComparaveis \cup
           {[n |-> r.n, lat |-> dados.coordenadas.lat,
             lon |-> dados.coordenadas.lon, raio |-> Raio]}
    /\ UNCHANGED <<ceps, cepSelecionado, carregandoCeps, carregandoImoveis,
                   comparaveis, expandido, faseImoveis, pedidoCeps, nBuscas,
                   download>>
    /\ UNCHANGED <<varsCadastro, varsAvaliacoes, avisos>>

\* The region request r gets a response that is not ok: the handler throws.
RegiaoNotOk(r) ==
    /\ r \in regioes
    /\ regioes' = regioes \ {r}
    /\ FalhaImoveis(r.n)
    /\ UNCHANGED <<ceps, cepSelecionado, carregandoCeps, dadosRegiao,
                   comparaveis, expandido, faseImoveis, pedidoCeps,
                   pedidosComparaveis, nBuscas, origem, download>>
    /\ UNCHANGED <<varsCadastro, varsAvaliacoes>>

\* The region request r: fetch or res.json() rejects.
RegiaoThrow(r) ==
    /\ r \in regioes
    /\ regioes' = regioes \ {r}
    /\ FalhaImoveis(r.n)
    /\ UNCHANGED <<ceps, cepSelecionado, carregandoCeps, dadosRegiao,
                   comparaveis, expandido, faseImoveis, pedidoCeps,
                   pedidosComparaveis, nBuscas, origem, download>>
    /\ UNCHANGED <<varsCadastro, varsAvaliacoes>>

\* The comparables request r is answered ok with the list `comps`.
ComparaveisOk(r, comps) ==
    /\ r \in pedidosComparaveis
    /\ pedidosComparaveis' = pedidosComparaveis \ {r}
    /\ comparaveis' = comps
    /\ origem' = [origem EXCEPT !.comparaveis = r.n]
    /\ carregandoImoveis' = FALSE
    /\ UNCHANGED <<ceps, cepSelecionado, carregandoCeps, dadosRegiao,
                   expandido, faseImoveis, pedidoCeps, regioes, nBuscas,
                   download>>
    /\ UNCHANGED <<varsCadastro, varsAvaliacoes, avisos>>

\* The comparables request r gets a response that is not ok.
ComparaveisNotOk(r) ==
    /\ r \in pedidosComparaveis
    /\ pedidosComparaveis' = pedidosComparaveis \ {r}
    /\ FalhaImoveis(r.n)
    /\ UNCHANGED <<ceps, cepSelecionado, carregandoCeps, dadosRegiao,
                   comparaveis, expandido, faseImoveis, pedidoCeps, regioes,
                   nBuscas, origem, download>>
    /\ UNCHANGED <<varsCadastro, varsAvaliacoes>>

\* The comparables request r: fetch or res.json() rejects.
ComparaveisThrow(r) ==
    /\ r \in pedidosComparaveis
    /\ pedidosComparaveis' = pedidosComparaveis \ {r}
    /\ FalhaImoveis(r.n)
    /\ UNCHANGED <<ceps, cepSelecionado, carregandoCeps, dadosRegiao,
                   comparaveis, expandido, faseImoveis, pedidoCeps, regioes,
                   nBuscas, origem, download>>
    /\ UNCHANGED <<varsCadastro, varsAvaliacoes>>

\* The table of listings is rendered.
TabelaVisivel ==
    /\ faseImoveis = "montado"
    /\ ~carregandoCeps
    /\ Len(ceps) > 0
    /\ ~carregandoImoveis
    /\ Len(comparaveis) > 0

\* expandido ? null : c.id, a toggle that collapses whatever row is
\* expanded and expands the clicked row only when none is.
AlternaFechando(atual, id) == IF atual # Nenhum THEN Nenhum ELSE id

\* expandido === c.id ? null : c.id
Alterna(atual, id) == IF atual = id THEN Nenhum ELSE id

\* onClick of the row k: setExpandido(expandido === c.id ? null : c.id)
AlternarLinha(k) ==
    /\ TabelaVisivel
    /\ k \in 1..Len(comparaveis)
    /\ expandido' = Alterna(expandido, comparaveis[k].id)
    /\ UNCHANGED <<ceps, cepSelecionado, carregandoCeps, carregandoImoveis,
                   dadosRegiao, comparaveis, faseImoveis, pedidoCeps, regioes,
                   pedidosComparaveis, nBuscas, origem, download>>
    /\ UNCHANGED <<varsCadastro, varsAvaliacoes, avisos>>

\* String(n) of a number, as Array.prototype.join writes it.
Numero(n) == <<ToString(n)>>

\* c.campo ?? "" for a number that may be null.
NumeroOuVazio(x) == IF x = Nulo THEN <<>> ELSE Numero(x[1])

\* Math.round of a number given in tenths: halves go up.
MathRound(decimos) == (decimos + 5) \div 10

RECURSIVE DobraAspas(_)
\* texto.replace(/"/g, '""')
DobraAspas(t) ==
    IF t = <<>> THEN <<>>
    ELSE (IF Head(t) = Aspas THEN <<Aspas, Aspas>> ELSE <<Head(t)>>)
             \o DobraAspas(Tail(t))

\* `"${(campo ?? "").replace(/"/g, '""')}"`
EntreAspas(x) == <<Aspas>> \o DobraAspas(OuSenao(x, <<>>)) \o <<Aspas>>

RECURSIVE Join(_, _)
\* Array.prototype.join: the texts of ts with sep between them.
Join(ts, sep) ==
    IF ts = <<>> THEN <<>>
    ELSE IF Len(ts) = 1 THEN ts[1]
    ELSE ts[1] \o sep \o Join(Tail(ts), sep)

\* const header = "Preco,Area interna m2,...,Distancia m"
Cabecalho ==
    Join(<< <<"Preco">>, <<"Area interna m2">>, <<"Area externa m2">>,
            <<"Quartos">>, <<"Suites">>, <<"Banheiros">>, <<"Vagas">>,
            <<"Idade predio">>, <<"Endereco">>, <<"Bairro">>, <<"Fonte">>,
            <<"URL">>, <<"Distancia m">> >>, <<Virgula>>)

\* The array of one listing's fields, before its join.
CamposDe(c) ==
    << Numero(c.preco),
       NumeroOuVazio(c.area_interna_m2),
       NumeroOuVazio(c.area_externa_m2),
       NumeroOuVazio(c.dormitorios),
       NumeroOuVazio(c.suites),
       NumeroOuVazio(c.banheiros),
       NumeroOuVazio(c.vagas),
       NumeroOuVazio(c.idade_predio_anos),
       EntreAspas(c.endereco),
       EntreAspas(c.bairro),
       OuSenao(c.fonte, <<>>),
       OuSenao(c.url, <<>>),
       Numero(MathRound(c.distancia_metros)) >>

\* The row of one listing: [...].join(",")
LinhaDe(c) == Join(CamposDe(c), <<Virgula>>)

\* exportarCsvComparaveis: the text of the file, [header, ...linhas].join("\n")
CsvComparaveis(lista) ==
    Join(<<Cabecalho>> \o [k \in 1..Len(lista) |-> LinhaDe(lista[k])],
         <<NovaLinha>>)

\* onClick of the CSV button: exportarCsvComparaveis(comparaveis,
\* cepSelecionado) hands the browser the file imoveis-<cep>.csv.
ExportarCsv ==
    /\ TabelaVisivel
    /\ download' =
           <<[nome |-> <<"imoveis-">> \o cepSelecionado \o <<".csv">>,
              conteudo |-> CsvComparaveis(comparaveis)]>>
    /\ UNCHANGED <<ceps, cepSelecionado, carregandoCeps, carregandoImoveis,
                   dadosRegiao, comparaveis, expandido, faseImoveis,
                   pedidoCeps, regioes, pedidosComparaveis, nBuscas, origem>>
    /\ UNCHANGED <<varsCadastro, varsAvaliacoes, avisos>>

(* --------------------------- AvaliacoesPage --------------------------- *)

\* interface Avaliacao, reduced to the fields the filters and the export
\* read.  The record of a given id, cep, sugerido and confidence_score:
\* endereco, minimo, maximo, sugerido, confidence_score, pam2_medio and
\* comparaveis_usados may be null; pam2_medio is in tenths.
Avaliacao(id, cep, sugerido, score) ==
    [id |-> id,
     cep |-> cep,
     endereco |-> IF id % 2 = 1
                  THEN << <<"Rua ", Aspas, "A", Aspas, Virgula, " 10">> >>
                  ELSE Nulo,
     area_interna_m2 |-> 70,
     minimo |-> IF sugerido = Nulo THEN Nulo ELSE <<sugerido[1] - 1000>>,
     maximo |-> IF sugerido = Nulo THEN Nulo ELSE <<sugerido[1] + 1000>>,
     sugerido |-> sugerido,
     confidence_score |-> score,
     pam2_medio |-> IF sugerido = Nulo THEN Nulo ELSE <<50005>>,
     comparaveis_usados |-> IF score = Nulo THEN Nulo ELSE <<7>>,
     criado_em |-> <<"2024-01-0", ToString(id), "T10:00:00Z">>]

\* The records the lists of several valuations are made of.
AvaliacoesAmostra ==
    { Avaliacao(1, CepDe(1), <<300000>>, <<80>>),
      Avaliacao(3, CepDe(1), <<400000>>, <<39>>),
      Avaliacao(4, CepDe(1), Nulo, <<55>>),
      Avaliacao(5, CepDe(2), <<350000>>, Nulo) }

\* confidence_score: null or any score of 0..100.
Scores == {Nulo} \cup {<<n>> : n \in 0..100}

\* The lists a GET /avaliacoes answers with: every list of at most
\* MaxAvaliacoes sample records, and one record of every score.
ListasAvaliacoes ==
    SeqsUpTo(AvaliacoesAmostra, MaxAvaliacoes)
        \cup {<<Avaliacao(6, CepDe(1), <<350000>>, sc)>> : sc \in Scores}

\* The options of the confidence selector; "" is Todas.
Confiancas == {"", "alta", "media", "baixa"}

\* What the user types into the price inputs; <<>> is the empty input.
PrecosDigitados ==
    { <<>>, <<"3", "0", "0", "0", "0", "0">>, <<"3", "5", "0", "0", "0", "0">> }

\* The value of a digit.
ValorDoDigito(d) ==
    CHOOSE n \in 0..9 :
        <<"0", "1", "2", "3", "4", "5", "6", "7", "8", "9">>[n + 1] = d

RECURSIVE Number(_)
\* Number(s) of a string of digits.
Number(s) ==
    IF s = <<>> THEN 0
    ELSE 10 * Number(SubSeq(s, 1, Len(s) - 1)) + ValorDoDigito(s[Len(s)])

\* The confidence block of the filter with `score >= 70` written
\* `score > 70` in the media test.
RejeitaConfiancaLimiteErrado(filtro, score) ==
    \/ filtro = "alta" /\ (score = Nulo \/ score[1] < 70)
    \/ filtro = "media" /\ (score = Nulo \/ score[1] < 40 \/ score[1] > 70)
    \/ filtro = "baixa" /\ (score = Nulo \/ score[1] >= 40)

\* The confidence block of the filter callback: the three tests that
\* return false.
RejeitaConfianca(filtro, score) ==
    \/ filtro = "alta" /\ (score = Nulo \/ score[1] < 70)
    \/ filtro = "media" /\ (score = Nulo \/ score[1] < 40 \/ score[1] >= 70)
    \/ filtro = "baixa" /\ (score = Nulo \/ score[1] >= 40)

\* The filter callback that tests the price against min only.
PassaSemMaximo(a, fCep, fConf, fMin, fMax) ==
    /\ ~(fCep # <<>> /\ a.cep # fCep)
    /\ ~(fConf # "" /\ RejeitaConfianca(fConf, a.confidence_score))
    /\ ~(fMin # <<>> /\ (a.sugerido = Nulo \/ a.sugerido[1] < Number(fMin)))

\* The callback of avaliacoes.filter: true unless one of its tests returns
\* false.
Passa(a, fCep, fConf, fMin, fMax) ==
    /\ ~(fCep # <<>> /\ a.cep # fCep)
    /\ ~(fConf # "" /\ RejeitaConfianca(fConf, a.confidence_score))
    /\ ~(fMin # <<>> /\ (a.sugerido = Nulo \/ a.sugerido[1] < Number(fMin)))
    /\ ~(fMax # <<>> /\ (a.sugerido = Nulo \/ a.sugerido[1] > Number(fMax)))

\* const filtradas = useMemo(...)
Filtradas ==
    SelectSeq(avaliacoes,
              LAMBDA a : Passa(a, filtroCep, filtroConfianca,
                               filtroPrecoMin, filtroPrecoMax))

\* const cepsUnicos = useMemo(...): the codes the CEP selector offers (the
\* order of the options plays no part here).
CepsUnicos == {avaliacoes[k].cep : k \in 1..Len(avaliacoes)}

\* const temFiltroAtivo = filtroCep || filtroConfianca || ...
TemFiltroAtivo ==
    \/ filtroCep # <<>>
    \/ filtroConfianca # ""
    \/ filtroPrecoMin # <<>>
    \/ filtroPrecoMax # <<>>

\* The filters are rendered: the list was fetched and is not empty.
FiltrosVisiveis ==
    /\ faseAvaliacoes = "montado"
    /\ ~carregandoAvaliacoes
    /\ Len(avaliacoes) > 0

\* The mount effect of AvaliacoesPage: fetch("/api/v1/avaliacoes").
MontarAvaliacoes ==
    /\ faseAvaliacoes = "construido"
    /\ faseAvaliacoes' = "montado"
    /\ pedidoAvaliacoes' = TRUE
    /\ UNCHANGED <<avaliacoes, carregandoAvaliacoes, filtroCep,
                   filtroConfianca, filtroPrecoMin, filtroPrecoMax>>
    /\ UNCHANGED <<varsCadastro, varsImoveis, avisos>>

\* The GET /avaliacoes is answered with the list `data`.
AvaliacoesOk(data) ==
    /\ pedidoAvaliacoes
    /\ pedidoAvaliacoes' = FALSE
    /\ avaliacoes' = data
    /\ carregandoAvaliacoes' = FALSE
    /\ UNCHANGED <<filtroCep, filtroConfianca, filtroPrecoMin,
                   filtroPrecoMax, faseAvaliacoes>>
    /\ UNCHANGED <<varsCadastro, varsImoveis, avisos>>

\* The GET /avaliacoes fails: fetch or res.json() rejects.
AvaliacoesThrow ==
    /\ pedidoAvaliacoes
    /\ pedidoAvaliacoes' = FALSE
    /\ carregandoAvaliacoes' = FALSE
    /\ avisos' = Append(avisos, Aviso("Erro ao carregar avaliacoes", 0))
    /\ UNCHANGED <<avaliacoes, filtroCep, filtroConfianca, filtroPrecoMin,
                   filtroPrecoMax, faseAvaliacoes>>
    /\ UNCHANGED <<varsCadastro, varsImoveis>>

\* onChange of the CEP selector: setFiltroCep(e.target.value)
SetFiltroCep(v) ==
    /\ FiltrosVisiveis
    /\ v \in {<<>>} \cup CepsUnicos
    /\ filtroCep' = v
    /\ UNCHANGED <<avaliacoes, carregandoAvaliacoes, filtroConfianca,
                   filtroPrecoMin, filtroPrecoMax, faseAvaliacoes,
                   pedidoAvaliacoes>>
    /\ UNCHANGED <<varsCadastro, varsImoveis, avisos>>

\* onChange of the confidence selector: setFiltroConfianca(e.target.value)
SetFiltroConfianca(v) ==
    /\ FiltrosVisiveis
    /\ v \in Confiancas
    /\ filtroConfianca' = v
    /\ UNCHANGED <<avaliacoes, carregandoAvaliacoes, filtroCep,
                   filtroPrecoMin, filtroPrecoMax, faseAvaliacoes,
                   pedidoAvaliacoes>>
    /\ UNCHANGED <<varsCadastro, varsImoveis, avisos>>

\* onChange of the minimum price: setFiltroPrecoMin(e.target.value)
SetFiltroPrecoMin(v) ==
    /\ FiltrosVisiveis
    /\ filtroPrecoMin' = v
    /\ UNCHANGED <<avaliacoes, carregandoAvaliacoes, filtroCep,
                   filtroConfianca, filtroPrecoMax, faseAvaliacoes,
                   pedidoAvaliacoes>>
    /\ UNCHANGED <<varsCadastro, varsImoveis, avisos>>

\* onChange of the maximum price: setFiltroPrecoMax(e.target.value)
SetFiltroPrecoMax(v) ==
    /\ FiltrosVisiveis
    /\ filtroPrecoMax' = v
    /\ UNCHANGED <<avaliacoes, carregandoAvaliacoes, filtroCep,
                   filtroConfianca, filtroPrecoMin, faseAvaliacoes,
                   pedidoAvaliacoes>>
    /\ UNCHANGED <<varsCadastro, varsImoveis, avisos>>

\* limparFiltros: the Limpar button, rendered while a filter is active.
LimparFiltros ==
    /\ FiltrosVisiveis
    /\ TemFiltroAtivo
    /\ filtroCep' = <<>>
    /\ filtroConfianca' = ""
    /\ filtroPrecoMin' = <<>>
    /\ filtroPrecoMax' = <<>>
    /\ UNCHANGED <<avaliacoes, carregandoAvaliacoes, faseAvaliacoes,
                   pedidoAvaliacoes>>
    /\ UNCHANGED <<varsCadastro, varsImoveis, avisos>>

\* const header = "Data,CEP,...,Comparaveis"
CabecalhoAvaliacoes ==
    Join(<< <<"Data">>, <<"CEP">>, <<"Endereco">>, <<"Area m2">>,
            <<"Sugerido">>, <<"Minimo">>, <<"Maximo">>, <<"PAM2/m2">>,
            <<"Confianca %">>, <<"Comparaveis">> >>, <<Virgula>>)

\* The array of one valuation's fields, before its join.
CamposDaAvaliacao(a) ==
    << a.criado_em,
       FormatarCep(a.cep),
       EntreAspas(a.endereco),
       Numero(a.area_interna_m2),
       NumeroOuVazio(a.sugerido),
       NumeroOuVazio(a.minimo),
       NumeroOuVazio(a.maximo),
       IF a.pam2_medio # Nulo
       THEN Numero(MathRound(a.pam2_medio[1])) ELSE <<>>,
       NumeroOuVazio(a.confidence_score),
       NumeroOuVazio(a.comparaveis_usados) >>

\* exportarCsv: the text of the file, [header, ...linhas].join("\n")
CsvAvaliacoes(lista) ==
    Join(<<CabecalhoAvaliacoes>>
             \o [k \in 1..Len(lista) |->
                    Join(CamposDaAvaliacao(lista[k]), <<Virgula>>)],
         <<NovaLinha>>)

\* onClick of the CSV button of AvaliacoesPage: exportarCsv(filtradas)
\* hands the browser the file avaliacoes.csv.
ExportarCsvAvaliacoes ==
    /\ FiltrosVisiveis
    /\ download' =
           <<[nome |-> <<"avaliacoes.csv">>,
              conteudo |-> CsvAvaliacoes(Filtradas)]>>
    /\ UNCHANGED <<ceps, cepSelecionado, carregandoCeps, carregandoImoveis,
                   dadosRegiao, comparaveis, expandido, faseImoveis,
                   pedidoCeps, regioes, pedidosComparaveis, nBuscas, origem>>
    /\ UNCHANGED <<varsCadastro, varsAvaliacoes, avisos>>

(* --------------------------- specifications --------------------------- *)

\* The polling of a view in which the user does nothing: polls may overlap.
NextPoll ==
    \/ MountEffect
    \/ IntervalTick(MaxInFlight)
    \/ \E i \in 1..MaxInFlight, data \in CepLists : BuscarCepsOk(i, data)
    \/ \E i \in 1..MaxInFlight : BuscarCepsNotOk(i)
    \/ \E i \in 1..MaxInFlight : BuscarCepsThrow(i)
    \/ Unmount

SpecPoll == Init /\ [][NextPoll]_vars

\* The autocomplete and the registration it leads to.
NextBusca ==
    \/ MountEffect
    \/ \E valor \in ValoresDigitados : HandleTextoChange(valor)
    \/ \E t \in timeouts : DebounceFire(t)
    \/ \E r \in enderecos, data \in SugListas : EnderecosOk(r, data)
    \/ \E r \in enderecos : EnderecosNotOk(r)
    \/ \E r \in enderecos : EnderecosThrow(r)
    \/ InputFocus
    \/ ClickFora
    \/ \E t \in {"apartamento", "casa"} : SetTipo(t)
    \/ \E k \in 1..Len(sugestoes) : HandleSelecionarSugestao(k)
    \/ \E r \in posts : Post409(r)
    \/ \E r \in posts : PostThrow(r)

SpecBusca == Init /\ [][NextBusca]_vars

\* The rows of the list: polling one request at a time, retry and delete.
NextLinha ==
    \/ MountEffect
    \/ IntervalTick(1)
    \/ \E data \in ListasLinha : BuscarCepsOk(1, data)
    \/ \E k \in 1..Len(cepsCadastrados) : HandleRetry(k)
    \/ \E r \in retries, atualizado \in RegistrosLinha : RetryOk(r, atualizado)
    \/ \E r \in retries : RetryNotOk(r)
    \/ \E r \in retries : RetryThrow(r)
    \/ \E k \in 1..Len(cepsCadastrados) : HandleRemover(k)
    \/ \E r \in deletes : RemoverOk(r)
    \/ \E r \in deletes : RemoverNotOk(r)
    \/ \E r \in deletes : RemoverThrow(r)

SpecLinha == Init /\ [][NextLinha]_vars

\* The mounted view's registration and retry with the polling they restart:
\* one poll in flight at a time, one typed value, one suggestion; a
\* registration is answered ok, 409 or not at all.
Next ==
    \/ MountEffect
    \/ IntervalTick(1)
    \/ \E data \in ListasCurtas : BuscarCepsOk(1, data)
    \/ BuscarCepsNotOk(1)
    \/ BuscarCepsThrow(1)
    \/ HandleTextoChange(<<"a", "b">>)
    \/ \E t \in timeouts : DebounceFire(t)
    \/ \E r \in enderecos : EnderecosOk(r, <<SugCompleta>>)
    \/ \E k \in 1..Len(sugestoes) : HandleSelecionarSugestao(k)
    \/ \E r \in posts : Post409(r)
    \/ \E r \in posts : PostThrow(r)
    \/ /\ Len(cepsCadastrados) < MaxLocal
       /\ \E r \in posts, novo \in RegistrosEnfileirados : PostOk(r, novo)
    \/ \E k \in 1..Len(cepsCadastrados) : HandleRetry(k)
    \/ \E r \in retries, atualizado \in RegistrosEnfileirados : RetryOk(r, atualizado)
    \/ \E r \in retries : RetryNotOk(r)
    \/ \E r \in retries : RetryThrow(r)

Spec == Init /\ [][Next]_vars

\* The registrations of a view whose polls answer with up to two records,
\* with every answer the server or the network can give: a new record is
\* put before what is listed, polled or registered.
NextCadastro ==
    \/ MountEffect
    \/ IntervalTick(1)
    \/ \E data \in ListasAmostra : BuscarCepsOk(1, data)
    \/ HandleTextoChange(<<"a", "b">>)
    \/ \E t \in timeouts : DebounceFire(t)
    \/ \E r \in enderecos : EnderecosOk(r, <<SugCompleta>>)
    \/ \E k \in 1..Len(sugestoes) : HandleSelecionarSugestao(k)
    \/ \E r \in posts : Post409(r)
    \/ \E r \in posts, detail \in Detalhes : PostNotOk(r, detail)
    \/ \E r \in posts, ok \in BOOLEAN : PostJsonRejeita(r, ok)
    \/ \E r \in posts : PostThrow(r)
    \/ /\ Len(cepsCadastrados) <= MaxLocal
       /\ \E r \in posts, novo \in RegistrosEnfileirados : PostOk(r, novo)

SpecCadastro == Init /\ [][NextCadastro]_vars

\* ImoveisPage: the selector, the two requests of every selection, the
\* rows.
NextImoveis ==
    \/ MontarImoveis
    \/ \E data \in ListasAmostra : CepsImoveisOk(data)
    \/ CepsImoveisThrow
    \/ \E k \in 1..Len(ceps) : SelecionarCep(k)
    \/ \E r \in regioes, dados \in DadosRegioes : RegiaoOk(r, dados)
    \/ \E r \in regioes : RegiaoNotOk(r)
    \/ \E r \in regioes : RegiaoThrow(r)
    \/ \E r \in pedidosComparaveis, comps \in ListasComparaveis :
           ComparaveisOk(r, comps)
    \/ \E r \in pedidosComparaveis : ComparaveisNotOk(r)
    \/ \E r \in pedidosComparaveis : ComparaveisThrow(r)
    \/ \E k \in 1..Len(comparaveis) : AlternarLinha(k)

SpecImoveis == Init /\ [][NextImoveis]_vars

\* AvaliacoesPage: the fetch, the four filters and the export.
NextAvaliacoes ==
    \/ MontarAvaliacoes
    \/ \E data \in ListasAvaliacoes : AvaliacoesOk(data)
    \/ AvaliacoesThrow
    \/ \E v \in CepsUnicos \cup {<<>>} : SetFiltroCep(v)
    \/ \E v \in Confiancas : SetFiltroConfianca(v)
    \/ \E v \in PrecosDigitados : SetFiltroPrecoMin(v)
    \/ \E v \in PrecosDigitados : SetFiltroPrecoMax(v)
    \/ LimparFiltros
    \/ ExportarCsvAvaliacoes

SpecAvaliacoes == Init /\ [][NextAvaliacoes]_vars

\* The lists a GET /comparaveis answers with in the specification of the
\* export: at most MaxLinhas of the sample listings.
ListasCsv == SeqsUpTo(Imoveis, MaxLinhas)

\* ImoveisPage with one selection: its listings, their rows and the export.
NextCsv ==
    \/ MontarImoveis
    \/ \E data \in ListasCurtas : CepsImoveisOk(data)
    \/ \E r \in regioes, dados \in DadosRegioes : RegiaoOk(r, dados)
    \/ \E r \in pedidosComparaveis, comps \in ListasCsv :
           ComparaveisOk(r, comps)
    \/ \E k \in 1..Len(comparaveis) : AlternarLinha(k)
    \/ ExportarCsv

SpecCsv == Init /\ [][NextCsv]_vars

\* The cep of a record as the server may hold it: the client sends what is
\* left of a suggestion's cep without checking its length, and the record
\* comes back with it.
CepsDiversos ==
    { <<"8", "8", "0", "1", "5", "2", "0", "0">>,
      <<"8", "8", "0", "1", "5">>,
      <<"8", "8", "0">>,
      <<>>,
      <<"8", "8", "0", "1", "5", "-", "2", "0", "0">>,
      <<"8", "8", "0", "1", "5", "2", "0", "0", "1">> }

\* Lists of one record, of any of these codes, that can be retried or
\* deleted.
ListasFormato ==
    {<<[id |-> 1, cep |-> c, status |-> st]>> :
        c \in CepsDiversos, st \in {"concluido", "erro"}}

\* The rows whose code formatarCepExibicao writes into a notification.
NextFormato ==
    \/ MountEffect
    \/ IntervalTick(1)
    \/ \E data \in ListasFormato : BuscarCepsOk(1, data)
    \/ \E k \in 1..Len(cepsCadastrados) : HandleRetry(k)
    \/ \E r \in retries, atualizado \in RegistrosEnfileirados :
           RetryOk(r, atualizado)
    \/ \E k \in 1..Len(cepsCadastrados) : HandleRemover(k)
    \/ \E r \in deletes : RemoverOk(r)

SpecFormato == Init /\ [][NextFormato]_vars

\* The teardown of the view with a poll, a registration or a retry in
\* flight: their responses are handled after it.
NextDesmonte ==
    \/ MountEffect
    \/ IntervalTick(1)
    \/ \E data \in ListasCurtas : BuscarCepsOk(1, data)
    \/ HandleTextoChange(<<"a", "b">>)
    \/ \E t \in timeouts : DebounceFire(t)
    \/ \E r \in enderecos : EnderecosOk(r, <<SugCompleta>>)
    \/ \E k \in 1..Len(sugestoes) : HandleSelecionarSugestao(k)
    \/ /\ Len(cepsCadastrados) < MaxLocal
       /\ \E r \in posts, novo \in RegistrosEnfileirados : PostOk(r, novo)
    \/ \E k \in 1..Len(cepsCadastrados) : HandleRetry(k)
    \/ \E r \in retries, atualizado \in RegistrosEnfileirados : RetryOk(r, atualizado)
    \/ Unmount

SpecDesmonte == Init /\ [][NextDesmonte]_vars

(* ------------------------------- claims ------------------------------- *)

\* No record of the list is pendente or processando.
TodosConcluidos(data) ==
    \A k \in 1..Len(data) : data[k].status \in {"concluido", "erro"}

\* C1: handling an ok poll response whose list has no pendente or
\* processando record stops the polling timer (no interval runs and the ref
\* is null); handling one that has such a record leaves the timer as it is.
\* (The list the handler received is the list it stored.)
C1_PollParaQuandoConcluido ==
    [][\A i \in 1..Len(polls) :
          BuscarCepsOk(i, cepsCadastrados') =>
              IF TodosConcluidos(cepsCadastrados')
              THEN timers' = {} /\ intervalRef' = Null
              ELSE timers' = timers /\ intervalRef' = intervalRef]_vars

\* C1 witness: the mounted view shows three records, all concluido or erro,
\* and its polling has stopped.
C1_Witness ==
    /\ fase = "montado"
    /\ Len(cepsCadastrados) = 3
    /\ TodosConcluidos(cepsCadastrados)
    /\ timers = {}
    /\ intervalRef = Null

\* C8: overlapping polls are harmless, the list ends equal to the response
\* of the latest-issued poll: handling the ok response of a poll that a
\* later-issued, already answered poll has overtaken leaves the list as the
\* later response set it.  (Under SpecPoll the poll responses are the only
\* writers of the list, so until a late response is stored the list is the
\* response of the latest-issued poll answered so far.)
C8_RespostaAtrasadaInofensiva ==
    [][\A i \in 1..Len(polls) :
          (BuscarCepsOk(i, cepsCadastrados') /\ polls[i].sup) =>
              cepsCadastrados' = cepsCadastrados]_vars

\* A registration response is handled in this step.
PostRespondido == posts' \subseteq posts /\ posts' # posts

\* C2: in the mounted view, after a registration answered ok or a retry
\* answered ok is handled, a polling interval runs and intervalRef holds it;
\* if one ran before, it is the same one.
C2_SucessoGarantePolling ==
    [][(/\ fase = "montado"
        /\ \/ PostRespondido /\ resposta'.tipo = "ok"
           \/ \E r \in retries, atualizado \in CepRecords : RetryOk(r, atualizado))
       => /\ timers' # {}
          /\ intervalRef' \in timers'
          /\ timers # {} => timers' = timers /\ intervalRef' = intervalRef]_vars

\* C2 witness: the last poll answered with one concluido record, which
\* stopped the polling; a registration then succeeded and an interval runs.
C2_Witness ==
    /\ fase = "montado"
    /\ resposta.tipo = "ok"
    /\ Len(cepsCadastrados) = 2
    /\ cepsCadastrados[1] = resposta.novo[1]
    /\ cepsCadastrados[2].status = "concluido"
    /\ timers # {}
    /\ intervalRef \in timers

\* C3: handling a 409 answer to a registration leaves the list and the
\* polling timer as they were and shows "CEP ja cadastrado", which is
\* neither the connectivity message nor the server detail or its fallback.
C3_DuplicadoNaoAlteraLista ==
    [][(PostRespondido /\ resposta'.tipo = "409")
       => /\ cepsCadastrados' = cepsCadastrados
          /\ timers' = timers
          /\ intervalRef' = intervalRef
          /\ toast' = [kind |-> "error", msg |-> "CEP ja cadastrado", arg |-> <<>>]
          /\ toast'.msg \notin
                 (Detalhes \cup {"Erro ao cadastrar CEP",
                                 "Erro de conexao com o servidor"})]_vars

\* C3 witness: a 409 was handled while the list was not empty and the
\* polling ran.
C3_Witness ==
    /\ resposta.tipo = "409"
    /\ toast.msg = "CEP ja cadastrado"
    /\ cepsCadastrados # <<>>
    /\ timers # {}

\* C4: a response that is not ok and not 409 shows the server's detail, or
\* "Erro ao cadastrar CEP" when there is none, and never the connectivity
\* message; the connectivity message is shown only when the request itself
\* fails; in these cases the list is unchanged and carregando ends false.
C4_FalhasDistintas ==
    [][PostRespondido
       => /\ resposta'.tipo \in {"nao-ok", "nao-ok-sem-json"}
                => /\ toast'.msg # "Erro de conexao com o servidor"
                   /\ toast'.msg = IF resposta'.detail \in {Ausente, ""}
                                   THEN "Erro ao cadastrar CEP"
                                   ELSE resposta'.detail
          /\ toast'.msg = "Erro de conexao com o servidor"
                => resposta'.tipo = "falha-rede"
          /\ resposta'.tipo \in {"nao-ok", "nao-ok-sem-json", "falha-rede"}
                => cepsCadastrados' = cepsCadastrados /\ carregando' = FALSE]_vars

\* C5: handling a registration answered ok makes the list the new record
\* followed by the records of the list as it was, in the same order, and
\* clears the input text.
C5_SucessoPrepoe ==
    [][(PostRespondido /\ resposta'.tipo = "ok")
       => /\ Len(cepsCadastrados') = Len(cepsCadastrados) + 1
          /\ cepsCadastrados'[1] = resposta'.novo[1]
          /\ \A k \in 1..Len(cepsCadastrados) :
                 cepsCadastrados'[k + 1] = cepsCadastrados[k]
          /\ texto' = <<>>]_vars

\* C5 witness: a registration succeeded on a list of two different
\* records, one concluido before one in erro; the new record is first,
\* the two follow in that order and the input is empty.
C5_Witness ==
    /\ resposta.tipo = "ok"
    /\ Len(cepsCadastrados) = 3
    /\ cepsCadastrados[1] = resposta.novo[1]
    /\ cepsCadastrados[2].status = "concluido"
    /\ cepsCadastrados[3].status = "erro"
    /\ cepsCadastrados[2].id # cepsCadastrados[3].id
    /\ texto = <<>>

\* C6: handling a retry answered ok replaces every record whose id is the
\* returned record's id by the returned record, at its position, and
\* leaves length, order and the other records alone; a retry that gets a
\* response that is not ok, or fails on the network, leaves the list and
\* the polling timer alone.
C6_RetrySubstituiNoLugar ==
    [][/\ \A r \in retries, atualizado \in RegistrosLinha :
              RetryOk(r, atualizado)
                  => /\ Len(cepsCadastrados') = Len(cepsCadastrados)
                     /\ \A k \in 1..Len(cepsCadastrados) :
                            cepsCadastrados'[k] =
                                IF cepsCadastrados[k].id = atualizado.id
                                THEN atualizado
                                ELSE cepsCadastrados[k]
       /\ \A r \in retries :
              (RetryNotOk(r) \/ RetryThrow(r))
                  => /\ cepsCadastrados' = cepsCadastrados
                     /\ timers' = timers
                     /\ intervalRef' = intervalRef]_vars

\* C6 witness: the retry of the second of two records was answered with
\* the record queued again: it is still second, after the concluido one.
C6_Witness ==
    /\ toast.msg = "reenfileirado"
    /\ Len(cepsCadastrados) = 2
    /\ cepsCadastrados[1].status = "concluido"
    /\ cepsCadastrados[2].status = "pendente"
    /\ toast.arg = FormatarCepExibicao(cepsCadastrados[2].cep)
    /\ timers # {}

\* How many of the first k records of prev have the id.
RECURSIVE ComId(_, _, _)
ComId(prev, id, k) ==
    IF k = 0 THEN 0
    ELSE ComId(prev, id, k - 1) + (IF prev[k].id = id THEN 1 ELSE 0)

\* C7: handling a delete answered ok removes exactly the records with the
\* deleted id and keeps the others in their order; a delete that gets a
\* response that is not ok, or fails on the network, leaves the list alone;
\* no delete starts or stops the polling timer.
C7_RemoverSoORegistro ==
    [][\A r \in deletes :
          /\ RemoverOk(r)
                => /\ Len(cepsCadastrados') =
                          Len(cepsCadastrados)
                              - ComId(cepsCadastrados, r.id, Len(cepsCadastrados))
                   /\ \A k \in 1..Len(cepsCadastrados) :
                          cepsCadastrados[k].id # r.id
                              => cepsCadastrados'[k - ComId(cepsCadastrados, r.id, k)]
                                     = cepsCadastrados[k]
          /\ (RemoverNotOk(r) \/ RemoverThrow(r))
                => cepsCadastrados' = cepsCadastrados
          /\ (RemoverOk(r) \/ RemoverNotOk(r) \/ RemoverThrow(r))
                => timers' = timers /\ intervalRef' = intervalRef]_vars

\* C7 witness: the second of three records was deleted while the polling
\* ran; the first and the third are what is left, in that order.
C7_Witness ==
    /\ toast.msg = "removido"
    /\ toast.arg = FormatarCepExibicao(CepDe(2))
    /\ Len(cepsCadastrados) = 2
    /\ cepsCadastrados[1].id = 3
    /\ cepsCadastrados[2].id = 1
    /\ cepsCadastrados[1].status # cepsCadastrados[2].status
    /\ timers # {}

\* C9: every POST /ceps in flight carries a cep of exactly eight
\* characters, all of them digits.
C9_CepComOitoDigitos ==
    \A r \in posts :
        /\ Len(r.cep) = 8
        /\ \A k \in 1..Len(r.cep) : r.cep[k] \in Digitos

\* C10: at most one debounce timeout is pending, it is the one debounceRef
\* holds, and it carries the value of the last change event, whose trimmed
\* length is at least 2; a change event leaves no earlier timeout pending;
\* a GET /enderecos leaves only when a pending timeout fires, with the
\* (encoded) value of the last change event.
C10_Debounce ==
    /\ [](/\ Cardinality(timeouts) <= 1
          /\ \A t \in timeouts :
                 /\ t.id = debounceRef
                 /\ t.valor = ultimoValor
                 /\ Len(Trim(t.valor)) >= 2)
    /\ [][/\ (\E valor \in ValoresDigitados : HandleTextoChange(valor))
                 => timeouts' \cap timeouts = {}
          /\ \A e \in enderecos' \ enderecos :
                 /\ \E t \in timeouts \ timeouts' :
                        e.q = EncodeURIComponent(t.valor)
                 /\ e.q = EncodeURIComponent(ultimoValor)
                 /\ Len(Trim(ultimoValor)) >= 2]_vars

\* C10 witness: a second change event replaced the timeout of the first,
\* which never fired: the second is pending, with the latest value, and no
\* request has left.
C10_Witness ==
    /\ timeouts = {[id |-> 2, valor |-> <<" ", "a", "b">>]}
    /\ debounceRef = 2
    /\ texto = <<" ", "a", "b">>
    /\ enderecos = {}
    /\ ~buscando
    /\ sugestoes = <<>>

\* The runs of buscarImoveis that have shown a notification.
BuscasComAviso == {avisos[k].busca : k \in 1..Len(avisos)} \ {0}

\* The runs of buscarImoveis with a request in flight.
BuscasEmCurso == {r.n : r \in regioes} \cup {r.n : r \in pedidosComparaveis}

\* C11: a selection change clears region data, comparables and expanded
\* row and requests the region data, and nothing else; a comparables request
\* leaves only in the step that handles the ok region response of the same
\* run, with the returned coordinates and radius 500; a failed region
\* request sends no comparables request, then or later; a failure at either
\* step appends exactly one notification, the generic one, and no run ever
\* shows two; the step that ends a run leaves carregandoImoveis false.
C11_SelecaoSequencial ==
    /\ [](/\ \A k, m \in 1..Len(avisos) :
                 (avisos[k].busca = avisos[m].busca /\ avisos[k].busca # 0)
                     => k = m
          /\ BuscasComAviso \cap BuscasEmCurso = {}
          /\ \A r \in regioes, q \in pedidosComparaveis : r.n # q.n)
    /\ [][/\ nBuscas' # nBuscas
               => /\ dadosRegiao' = <<>>
                  /\ comparaveis' = <<>>
                  /\ expandido' = Nenhum
                  /\ carregandoImoveis'
                  /\ regioes' = regioes \cup
                         {[n |-> nBuscas', cep |-> cepSelecionado']}
                  /\ pedidosComparaveis' = pedidosComparaveis
          /\ \A q \in pedidosComparaveis' \ pedidosComparaveis :
                 /\ \E r \in regioes \ regioes' :
                        r.n = q.n /\ RegiaoOk(r, dadosRegiao'[1])
                 /\ q.lat = dadosRegiao'[1].coordenadas.lat
                 /\ q.lon = dadosRegiao'[1].coordenadas.lon
                 /\ q.raio = 500
          /\ \A r \in regioes :
                 (RegiaoNotOk(r) \/ RegiaoThrow(r))
                     => /\ pedidosComparaveis' = pedidosComparaveis
                        /\ avisos' = Append(avisos,
                               [msg |-> "Erro ao carregar imoveis da regiao",
                                busca |-> r.n])
                        /\ ~carregandoImoveis'
          /\ \A q \in pedidosComparaveis :
                 (ComparaveisNotOk(q) \/ ComparaveisThrow(q))
                     => /\ avisos' = Append(avisos,
                               [msg |-> "Erro ao carregar imoveis da regiao",
                                busca |-> q.n])
                        /\ ~carregandoImoveis'
          /\ \A q \in pedidosComparaveis :
                 ComparaveisOk(q, comparaveis')
                     => avisos' = avisos /\ ~carregandoImoveis']_vars

\* C11 witness: the first run ended without a notification; the selection
\* changed, and the second run's region request failed: one notification,
\* nothing in flight, nothing displayed, loading over.
C11_Witness ==
    /\ nBuscas = 2
    /\ avisos = <<[msg |-> "Erro ao carregar imoveis da regiao", busca |-> 2]>>
    /\ regioes = {}
    /\ pedidosComparaveis = {}
    /\ dadosRegiao = <<>>
    /\ comparaveis = <<>>
    /\ expandido = Nenhum
    /\ ~carregandoImoveis

\* The row k of the table is expanded.
Expandida(atual, k) == atual = comparaveis[k].id

\* C12 as claimed: toggling a row changes only that row's expanded state,
\* every other row is expanded after the toggle iff it was before.
C12_LinhasIndependentes ==
    [][\A k \in 1..Len(comparaveis) :
          AlternarLinha(k) =>
              \A j \in 1..Len(comparaveis) :
                  comparaveis[j].id # comparaveis[k].id
                      => (Expandida(expandido', j) <=> Expandida(expandido, j))]_vars

\* C12 amended: toggling a row that is not expanded expands it and leaves
\* no other row expanded; toggling the expanded row collapses it and
\* leaves no row expanded.
C12_UmaLinhaExpandida ==
    [][\A k \in 1..Len(comparaveis) :
          AlternarLinha(k) =>
              /\ Expandida(expandido', k) <=> ~Expandida(expandido, k)
              /\ \A j \in 1..Len(comparaveis) :
                     comparaveis[j].id # comparaveis[k].id
                         => ~Expandida(expandido', j)]_vars

\* C12 witness: two listings are shown and the second is the expanded one.
C12_Witness ==
    /\ TabelaVisivel
    /\ Len(comparaveis) = 2
    /\ Expandida(expandido, 2)
    /\ ~Expandida(expandido, 1)

Tiers == {"baixa", "media", "alta"}

\* The tier filter t, alone, admits the record a.
AdmitePorTier(t, a) == Passa(a, <<>>, t, <<>>, <<>>)

\* What the tier t admits, as claimed: null never, otherwise by the score.
TierDoScore(t, score) ==
    /\ score # Nulo
    /\ \/ t = "baixa" /\ score[1] < 40
       \/ t = "media" /\ 40 <= score[1] /\ score[1] < 70
       \/ t = "alta" /\ score[1] >= 70

\* C13: of every fetched record with a score in 0..100 exactly one tier
\* filter admits it, baixa iff score < 40, media iff 40 <= score < 70,
\* alta iff score >= 70; a record whose score is null is admitted by none;
\* and with a tier as the only active filter the filtered set is the
\* records of that tier.
C13_TiersExaustivos ==
    /\ \A k \in 1..Len(avaliacoes) :
           LET a == avaliacoes[k]
               score == avaliacoes[k].confidence_score
           IN  /\ score = Nulo => \A t \in Tiers : ~AdmitePorTier(t, a)
               /\ score # Nulo =>
                      /\ score[1] \in 0..100
                      /\ Cardinality({t \in Tiers : AdmitePorTier(t, a)}) = 1
                      /\ AdmitePorTier("baixa", a) <=> score[1] < 40
                      /\ AdmitePorTier("media", a) <=>
                             (40 <= score[1] /\ score[1] < 70)
                      /\ AdmitePorTier("alta", a) <=> score[1] >= 70
    /\ (/\ filtroConfianca \in Tiers
        /\ filtroCep = <<>>
        /\ filtroPrecoMin = <<>>
        /\ filtroPrecoMax = <<>>)
           => Filtradas =
                  SelectSeq(avaliacoes,
                            LAMBDA a : TierDoScore(filtroConfianca,
                                                   a.confidence_score))

\* C13 witness: the one record fetched has score 70, the media filter is
\* the only active one, and nothing is listed.
C13_Witness ==
    /\ Len(avaliacoes) = 1
    /\ avaliacoes[1].confidence_score = <<70>>
    /\ filtroConfianca = "media"
    /\ filtroCep = <<>>
    /\ filtroPrecoMin = <<>>
    /\ filtroPrecoMax = <<>>
    /\ Filtradas = <<>>

\* The record a passes every active filter, as claimed.
PassaOsAtivos(a) ==
    /\ filtroCep # <<>> => a.cep = filtroCep
    /\ filtroConfianca # "" => TierDoScore(filtroConfianca, a.confidence_score)
    /\ filtroPrecoMin # <<>> =>
           (a.sugerido # Nulo /\ a.sugerido[1] >= Number(filtroPrecoMin))
    /\ filtroPrecoMax # <<>> =>
           (a.sugerido # Nulo /\ a.sugerido[1] <= Number(filtroPrecoMax))

\* How many of the first k fetched records pass every active filter.
RECURSIVE QuantosPassam(_)
QuantosPassam(k) ==
    IF k = 0 THEN 0
    ELSE QuantosPassam(k - 1) + (IF PassaOsAtivos(avaliacoes[k]) THEN 1 ELSE 0)

\* C14: the filtered set holds the fetched records that pass every active
\* filter and no other, in their order (the n-th that passes is the n-th
\* listed); with no filter active it is the fetched list; and the step of
\* limparFiltros leaves it equal to the fetched list.
C14_FiltroConjuncao ==
    /\ [](/\ Len(Filtradas) = QuantosPassam(Len(avaliacoes))
          /\ \A k \in 1..Len(avaliacoes) :
                 PassaOsAtivos(avaliacoes[k])
                     => Filtradas[QuantosPassam(k)] = avaliacoes[k]
          /\ ~TemFiltroAtivo => Filtradas = avaliacoes)
    /\ [][LimparFiltros =>
              /\ ~TemFiltroAtivo'
              /\ avaliacoes' = avaliacoes
              /\ Filtradas' = avaliacoes']_vars

\* C14 witness: three records are fetched and all four filters are active;
\* the second record has another CEP, the first and the third are listed.
C14_Witness ==
    /\ Len(avaliacoes) = 3
    /\ filtroCep = CepDe(1)
    /\ filtroConfianca = "alta"
    /\ filtroPrecoMin = <<"3", "0", "0", "0", "0", "0">>
    /\ filtroPrecoMax = <<"3", "5", "0", "0", "0", "0">>
    /\ avaliacoes[2].cep = CepDe(2)
    /\ Filtradas = <<avaliacoes[1], avaliacoes[3]>>

RECURSIVE Separa(_, _, _, _)
\* A CSV text t cut at every piece sep that is outside double quotes;
\* dentro tells whether a quote is open, campo is the part read so far.
Separa(t, sep, dentro, campo) ==
    IF t = <<>> THEN <<campo>>
    ELSE IF Head(t) = Aspas
         THEN Separa(Tail(t), sep, ~dentro, Append(campo, Head(t)))
    ELSE IF Head(t) = sep /\ ~dentro
         THEN <<campo>> \o Separa(Tail(t), sep, FALSE, <<>>)
    ELSE Separa(Tail(t), sep, dentro, Append(campo, Head(t)))

\* The rows of a CSV text and the fields of a row.
LinhasDoCsv(t) == Separa(t, NovaLinha, FALSE, <<>>)

CamposDaLinha(l) == Separa(l, Virgula, FALSE, <<>>)

RECURSIVE AspasDobradas(_)
\* The text t with each double quote written twice.
AspasDobradas(t) ==
    IF t = <<>> THEN <<>>
    ELSE IF Head(t) = Aspas THEN <<Aspas, Aspas>> \o AspasDobradas(Tail(t))
    ELSE <<Head(t)>> \o AspasDobradas(Tail(t))

\* A string field (null is the empty string) as the claim has it written.
CampoCitado(x) ==
    <<Aspas>> \o AspasDobradas(IF x = Nulo THEN <<>> ELSE x[1]) \o <<Aspas>>

\* C15: the export writes the header of 13 columns and then one row for
\* each listing shown, in order; in every row the string fields (endereco,
\* bairro, fonte, url) are written quoted with their double quotes doubled,
\* and the row has as many fields as the header.
C15_CsvCamposEntreAspas ==
    [][ExportarCsv =>
          LET linhas == LinhasDoCsv(download'[1].conteudo)
          IN  /\ Len(linhas) = 1 + Len(comparaveis)
              /\ linhas[1] = Cabecalho
              /\ Len(CamposDaLinha(linhas[1])) = 13
              /\ \A k \in 1..Len(comparaveis) :
                     LET campos == CamposDaLinha(linhas[k + 1])
                     IN  /\ Len(campos) = Len(CamposDaLinha(linhas[1]))
                         /\ campos[9] = CampoCitado(comparaveis[k].endereco)
                         /\ campos[10] = CampoCitado(comparaveis[k].bairro)
                         /\ campos[11] = CampoCitado(comparaveis[k].fonte)
                         /\ campos[12] = CampoCitado(comparaveis[k].url)]_vars

\* C16: handling a poll that got a response that is not ok, or that failed
\* on the network, leaves the list, the polling timer and the notifications
\* as they were; and while the interval runs its next tick can fire (up to
\* the bound on polls in flight), and a tick issues a new poll.
C16_FalhaDePollSilenciosa ==
    /\ []((timers # {} /\ Len(polls) < MaxInFlight)
              => ENABLED IntervalTick(MaxInFlight))
    /\ [][/\ \A i \in 1..Len(polls) :
                 (BuscarCepsNotOk(i) \/ BuscarCepsThrow(i))
                     => /\ cepsCadastrados' = cepsCadastrados
                        /\ timers' = timers
                        /\ intervalRef' = intervalRef
                        /\ toast' = toast
                        /\ avisos' = avisos
                        /\ Len(polls') = Len(polls) - 1
          /\ IntervalTick(MaxInFlight) => Len(polls') = Len(polls) + 1]_vars

\* C16 witness: every poll issued so far has failed (an ok response with
\* an empty list would have stopped the interval): the list is still
\* empty, nothing was shown, the interval runs and no poll is in flight.
C16_Witness ==
    /\ fase = "montado"
    /\ polls = <<>>
    /\ cepsCadastrados = <<>>
    /\ timers # {}
    /\ intervalRef \in timers
    /\ toast = SemToast

\* The digits of s, at most the first eight.
DigitosMantidos(s) ==
    SubSeq(ApenasDigitos(s), 1,
           IF Len(ApenasDigitos(s)) < 8 THEN Len(ApenasDigitos(s)) ELSE 8)

\* The formatter as claimed: the digits kept, with a hyphen after the fifth
\* once there are more than five.
FormatoAlegado(s) ==
    IF Len(DigitosMantidos(s)) <= 5 THEN DigitosMantidos(s)
    ELSE SubSeq(DigitosMantidos(s), 1, 5) \o <<"-">>
             \o SubSeq(DigitosMantidos(s), 6, Len(DigitosMantidos(s)))

\* C17: whatever the code of the record, the notification of its retry or
\* of its removal shows it as the formatter is claimed to write it: the
\* non-digits stripped, at most eight digits, a hyphen after the fifth only
\* when there are more than five.
C17_FormatadorDeCep ==
    [][/\ \A r \in deletes :
              RemoverOk(r) => toast'.arg = FormatoAlegado(r.cep)
       /\ \A r \in retries, atualizado \in RegistrosEnfileirados :
              RetryOk(r, atualizado) => toast'.arg = FormatoAlegado(r.cep)]_vars

\* C18: while the view is mounted, if the local list holds a record that
\* is pendente or processando, the polling interval is running.
C18_AtivoTemPolling ==
    (fase = "montado" /\ TemAtivos(cepsCadastrados))
        => (timers # {} /\ intervalRef \in timers)

\* C19: once the view is torn down no polling interval is running, at the
\* teardown and in every state after it.
C19_SemTimerAposDesmontagem ==
    fase = "desmontado" => timers = {}

\* C20: whenever carregandoImoveis is false and no request is in flight,
\* the region data and the comparables displayed were fetched by the run
\* of buscarImoveis for the current selection (or nothing is displayed);
\* and carregandoImoveis is never false while a request of the current
\* selection's run is in flight.
C20_SelecaoAtualExibida ==
    /\ (/\ ~carregandoImoveis
        /\ regioes = {}
        /\ pedidosComparaveis = {})
           => /\ origem.regiao \in {0, nBuscas}
              /\ origem.comparaveis \in {0, nBuscas}
    /\ ~carregandoImoveis => nBuscas \notin BuscasEmCurso

\* A suggestion has been selected since the last change event of the input:
\* the text is then the suggestion's label, or the empty text the accepted
\* registration leaves, and no longer the value of that change event (the
\* labels are not among the values typed).
SelecionadaDesdeADigitacao == texto # ultimoValor

\* C21: whenever the text has fewer than 2 characters after trimming, or a
\* suggestion has been selected since the last change event, the suggestion
\* list is empty and the dropdown is closed, whatever autocomplete response
\* has been handled since; and the dropdown is never open while the
\* suggestion list is empty.
C21_SugestoesSoDoTextoAtual ==
    /\ (Len(Trim(texto)) < 2 \/ SelecionadaDesdeADigitacao)
           => (sugestoes = <<>> /\ ~dropdownAberto)
    /\ dropdownAberto => sugestoes # <<>>

====
